---- MODULE Spec2Model ----
(***************************************************************************)
(* A model of the Theia FileService (write queue, buffered and unbuffered  *)
(* writes, copy pipes, watch reference counting) and of the remote         *)
(* file-system provider bridge (client watch bookkeeping and reconnect).   *)
(*                                                                         *)
(* The module holds three state machines over disjoint variables:          *)
(*   SpecWrite   writeFile / doCopyFile and the per-resource write queue   *)
(*   SpecWatch   FileService.watch / doWatch and the returned disposers    *)
(*   SpecRemote  RemoteFileSystemProvider.watch / reconnect                *)
(***************************************************************************)
EXTENDS Integers, Sequences, FiniteSets, TLC

\* ------------------------------------------------------------------ bounds

\* number of writeFile / doCopyFile calls issued in one behaviour
MaxTasks == 2

\* FileService.BUFFER_SIZE is 64 * 1024 in the source; the pipe buffer is
\* scaled down so that files shorter than, equal to and longer than it occur
BUFFER_SIZE == 2

\* number of FileService.watch calls issued in one behaviour
MaxSubs == 2

\* number of disposer invocations, over all watch calls of one behaviour,
\* that repeat an earlier invocation of the same disposer
MaxRepeatedDisposals == 1

\* number of RemoteFileSystemProvider.watch calls in one behaviour
MaxRemoteWatches == 2

\* number of watch requests FileSystemProviderServer receives in one behaviour
MaxServerWatches == 4

\* number of connection-opened events of the transport in one behaviour
MaxConnections == 3

\* the largest mtime a stored file has
MaxMtime == 2

\* the largest size a stored file has in the precondition checks
MaxSize == 1

\* the depth of the deepest directory mkdirp is called with
MaxDepth == 2

\* number of mkdirp calls in one behaviour
MaxMkdirp == 2

\* number of successful registerProvider calls in one behaviour
MaxRegistrations == 2

\* number of failed registerProvider calls in one behaviour
MaxFailedRegistrations == 1

\* number of operations that look a provider up in one behaviour
MaxOps == 2

\* the move, copy and delete calls of WorkingCopyFileService that can be in
\* flight together
MaxCalls == 2

\* ------------------------------------------------------- resources and data

Tasks == 1..MaxTasks

Providers == {"a", "b"}

\* URI strings; "a:/x" and "a:/X" differ only in letter case
Resources == {"a:/x", "a:/X", "b:/y"}

scheme(r) == IF r = "b:/y" THEN "b" ELSE IF r = "c:/z" THEN "c" ELSE "a"

\* String.prototype.toLowerCase on the URI strings of the model
toLowerCase(r) == IF r = "a:/X" THEN "a:/x" ELSE IF r = "S" THEN "s" ELSE r

\* the inputs of writeFile: a TextBuffer is one chunk, a readable or a stream
\* yields its chunks one by one
Inputs ==
    { [shape |-> "buffer",   chunks |-> << <<1, 2>> >>],
      [shape |-> "readable", chunks |-> << <<2>>, <<2, 1>> >>],
      [shape |-> "stream",   chunks |-> << <<1>>, <<>>, <<>>, <<1>> >>] }

\* the URIs doCopyFile is called with
CopySources == {"a:/x", "b:/y"}

\* what a file that exists before the first call holds (longer than BUFFER_SIZE)
InitialContent == <<2, 1, 2>>

NoInput == [shape |-> "none", chunks |-> << >>]

RECURSIVE concat(_)
\* TextBuffer.concat: the bytes of the chunks, in order
concat(chunks) ==
    IF chunks = << >> THEN << >> ELSE Head(chunks) \o concat(Tail(chunks))

\* s is a prefix of d
IsPrefix(s, d) == Len(s) <= Len(d) /\ s = SubSeq(d, 1, Len(s))

\* ---------------------------------------------------------------- variables

VARIABLES
    caps,         \* provider -> set of FileSystemProviderCapabilities
    files,        \* the providers' storage: resource -> [exists, content]
    handles,      \* task -> the provider.close calls made for the handles its
                  \* provider.open calls returned (-1: no such handle)
    tasks,        \* task id -> the state of one writeFile / doCopyFile call
    writeQueues,  \* FileService.writeQueues: queue key -> tail task (0: no entry)
    enqOrder,     \* history: queue key -> the tasks in the order they were enqueued
    execOrder     \* history: queue key -> the tasks in the order they started to run

writeVars == <<caps, files, handles, tasks, writeQueues, enqOrder, execOrder>>

VARIABLES
    activeWatchers,  \* FileService.activeWatchers: watch key -> watcher (0: no entry)
    watchers,        \* the watcher objects doWatch created: [key, count, disposes],
                     \* disposes counting the dispose() calls on the provider's watch
    subs,            \* watch call -> the state of the call and of its disposer
    lateCalls,       \* history: the keys for which watch was called after a
                     \* disposer of a watch of the key had been invoked
    earlyDisposals   \* history: the keys for which a disposer was invoked while
                     \* doWatch was still pending for a watch of the key

watchVars == <<activeWatchers, watchers, subs, lateCalls, earlyDisposals>>

VARIABLES
    watcherSequence, \* RemoteFileSystemProvider.watcherSequence
    watchOptions,    \* RemoteFileSystemProvider.watchOptions: the set of entries
    connections,     \* connection-opened events the transport has fired
    remoteActive,    \* history: watches created through watch() and not disposed,
                     \* [watcher, uri, recursive, since]: since = connections then
    serverWatchCalls \* history: the server.watch calls made, as a bag of
                     \* <<watcher, uri, recursive>> -> number of calls

remoteVars == <<watcherSequence, watchOptions, connections, remoteActive, serverWatchCalls>>

serviceVars == <<writeVars, watchVars, remoteVars>>

VARIABLES
    vfile,   \* what the provider stores under one URI: [type, mtime, size]
    vreq     \* one writeFile / readFile call with options for that URI

validateVars == <<vfile, vreq>>

VARIABLES
    dfs,     \* what the provider stores at each depth of one branch
    mk       \* the mkdirp calls: position, directory, history of their steps

dirVars == <<dfs, mk>>

VARIABLES
    provider,    \* FileService.provider, the map, at the one scheme of the model
    regs,        \* the successful registrations: [provider, disposals, subscribed]
    regEvents,   \* history: the number of {added: true} and {added: false} events
                 \* fired on onDidChangeFileSystemProviderRegistrations
    failedRegs,  \* history: number of registerProvider calls that threw
    changes,     \* history: change events fired by providers and rebroadcast
    ops          \* the operations that call withProvider

regVars == <<provider, regs, regEvents, failedRegs, changes, ops>>

VARIABLES
    store,       \* what the providers store below the source and the target URI
    mv,          \* the one move or copy call: position, arguments, locals
    opEvents     \* history: the events fired on onDidRunOperation

moveVars == <<store, mv, opEvents>>

VARIABLES
    fres     \* one FileResource: _version and the readContents / saveContents
             \* call in progress, which uses vreq for its FileService call

resVars == <<fres>>

VARIABLES
    participants,    \* WorkingCopyFileService.participants, in registration order
    correlationIds,  \* WorkingCopyFileService.correlationIds
    wc               \* the move, copy and delete calls of WorkingCopyFileService

wcVars == <<participants, correlationIds, wc>>

VARIABLES
    en       \* one writeFile, createFolder, del, move or copy call up to and
             \* after its provider lookup: the capabilities of its providers

entryVars == <<en>>

VARIABLES
    srv      \* FileSystemProviderServer: its watchers map, its toDispose
             \* collection, and the watches its provider has handed out

serverVars == <<srv>>

VARIABLES
    dp       \* the last writeFile, readFile, readFileStream, copy or move call:
             \* the capabilities of its providers and the provider methods
             \* it called

dispatchVars == <<dp>>

\* the variables of the operations but those of the precondition checks
exceptValidate == <<dirVars, regVars, moveVars, resVars, wcVars, entryVars, serverVars, dispatchVars>>

\* the variables of the operations but those of mkdirp
exceptDir == <<validateVars, regVars, moveVars, resVars, wcVars, entryVars, serverVars, dispatchVars>>

\* the variables of the operations but those of the provider registry
exceptReg == <<validateVars, dirVars, moveVars, resVars, wcVars, entryVars, serverVars, dispatchVars>>

\* the variables of the operations but those of move and copy
exceptMove == <<validateVars, dirVars, regVars, resVars, wcVars, entryVars, serverVars, dispatchVars>>

\* the variables of the operations but those of the working copy service
exceptWc == <<validateVars, dirVars, regVars, moveVars, resVars, entryVars, serverVars, dispatchVars>>

\* the variables of the operations but those of the provider lookup
exceptEntry == <<validateVars, dirVars, regVars, moveVars, resVars, wcVars, serverVars, dispatchVars>>

\* the variables of the operations but those of the provider server
exceptServer == <<validateVars, dirVars, regVars, moveVars, resVars, wcVars, entryVars, dispatchVars>>

\* the variables of the operations but those of the method dispatch
exceptDispatch == <<validateVars, dirVars, regVars, moveVars, resVars, wcVars, entryVars, serverVars>>

opVars == <<validateVars, dirVars, regVars, moveVars, resVars, wcVars, entryVars, serverVars, dispatchVars>>

vars == <<serviceVars, opVars>>

\* ------------------------------------------------------------ write: helpers

hasReadWriteCapability(p) == "FileReadWrite" \in caps[p]

hasOpenReadWriteCloseCapability(p) == "FileOpenReadWriteClose" \in caps[p]

\* the file a provider stores under a URI: a provider without
\* PathCaseSensitive does not tell apart URIs that differ in letter case
fileOf(r) == IF "PathCaseSensitive" \in caps[scheme(r)] THEN r ELSE toLowerCase(r)

\* provider.write(fd, pos, data, ...): bytes placed at position pos of the file
writeAt(content, pos, bytes) ==
    [i \in 1..(IF pos + Len(bytes) > Len(content) THEN pos + Len(bytes) ELSE Len(content)) |->
        IF i > pos /\ i <= pos + Len(bytes) THEN bytes[i - pos]
        ELSE IF i <= Len(content) THEN content[i] ELSE 0]

\* a consumer that drops what comes after limit chunks
consumeWithLimit_Truncating(input, limit) ==
    [shape |-> "buffer",
     chunks |-> << concat(SubSeq(input.chunks, 1,
                                 IF Len(input.chunks) < limit THEN Len(input.chunks) ELSE limit)) >>]

\* consumeStreamWithLimit / consumeReadableWithLimit(_, _, limit): the input
\* becomes one TextBuffer when it ends within limit chunks, else stays as it is
consumeWithLimit(input, limit) ==
    IF Len(input.chunks) <= limit
    THEN [shape |-> "buffer", chunks |-> << concat(input.chunks) >>]
    ELSE input

Subs == 1..MaxSubs

\* toWatchKey joins the map key, String(options.recursive) and the excludes;
\* the excludes are empty in every watch call of the model
WatchKeys == Resources \X BOOLEAN

\* the arguments watch is called with, resource and options.recursive; no
\* provider is registered for scheme c
WatchCalls == {<<"a:/x", FALSE>>, <<"a:/X", FALSE>>, <<"a:/x", TRUE>>, <<"c:/z", FALSE>>}

\* a watch call: pc is its position, watchDisposed and watchDisposable are the
\* locals of watch ("flag": the disposable that sets watchDisposed, "unref":
\* the disposable of doWatch), key and watcher the locals of doWatch; calls
\* counts the invocations of the returned disposer and unrefs the runs of the
\* function of the disposable of doWatch
IdleSub ==
    [pc |-> "idle", resource |-> "", options |-> [recursive |-> FALSE, excludes |-> << >>],
     key |-> <<"", FALSE>>, watchDisposed |-> FALSE,
     watchDisposable |-> "flag", watcher |-> 0, calls |-> 0, unrefs |-> 0]

\* the URIs watched through the remote provider
RemoteUris == {"a:/x", "b:/y"}

\* the request ids of the watch requests the server receives: the watcher
\* numbers RemoteFileSystemProvider.watch hands out
ServerRequests == 0 .. (MaxRemoteWatches - 1)

\* what a server.watch call can carry: watcher id, URI, options.recursive
RemoteWatchCalls == (0..(MaxRemoteWatches - 1)) \X RemoteUris \X BOOLEAN

\* a writeFile / readFile call: seen is the stat its validation got,
\* validated the outcome of the validation, calls the provider calls issued
IdleRequest ==
    [pc |-> "idle", op |-> "none",
     options |-> [hasMtime |-> FALSE, mtime |-> 0, hasEtag |-> FALSE, etag |-> << >>],
     seen |-> [type |-> "none", mtime |-> 0, size |-> 0],
     validated |-> "pending", calls |-> {}, result |-> "pending"]

\* the capabilities in the state machines that do not read them
FixedCaps ==
    [p \in Providers |-> IF p = "a"
                         THEN {"FileReadWrite", "FileOpenReadWriteClose", "PathCaseSensitive"}
                         ELSE {"FileReadWrite", "PathCaseSensitive"}]

IdleTask ==
    [pc |-> "idle", op |-> "none", resource |-> "", source |-> "", input |-> NoInput,
     kind |-> "none", key |-> "", pred |-> 0, ran |-> FALSE, failed |-> FALSE,
     handle |-> FALSE, srcHandle |-> FALSE, chunk |-> 1, buffer |-> << >>,
     len |-> 0, posInFile |-> 0, posInBuffer |-> 0, total |-> 0,
     error |-> "none", stat |-> -1, overwrite |-> TRUE, existed |-> FALSE,
     given |-> << >>]

Settled == {"resolved", "rejected"}

\* the task function has been entered and its promise is still pending
Running(t) == tasks[t].ran /\ tasks[t].pc \notin Settled

\* the capability sets of the providers: provider "a" writes whole files and
\* may have random access and case-sensitive paths as well, provider "b" has
\* exactly one of the two read/write shapes
CapSetsA ==
    { {"FileReadWrite"} \cup c : c \in SUBSET {"FileOpenReadWriteClose", "PathCaseSensitive"} }

CapSetsB ==
    { {"FileReadWrite", "PathCaseSensitive"}, {"FileOpenReadWriteClose", "PathCaseSensitive"} }

Init ==
    /\ \E ca \in CapSetsA, cb \in CapSetsB : caps = [p \in Providers |-> IF p = "a" THEN ca ELSE cb]
    /\ files = [r \in Resources |->
                  IF r = "a:/X" THEN [exists |-> FALSE, content |-> << >>]
                  ELSE [exists |-> TRUE, content |-> InitialContent]]
    /\ handles = [t \in Tasks |-> [source |-> -1, target |-> -1]]
    /\ tasks = [t \in Tasks |-> IdleTask]
    /\ writeQueues = [r \in Resources |-> 0]
    /\ enqOrder = [r \in Resources |-> << >>]
    /\ execOrder = [r \in Resources |-> << >>]
    /\ activeWatchers = [k \in WatchKeys |-> 0]
    /\ watchers = << >>
    /\ subs = [s \in Subs |-> IdleSub]
    /\ lateCalls = {}
    /\ earlyDisposals = {}
    /\ watcherSequence = 0
    /\ watchOptions = {}
    /\ connections = 0
    /\ remoteActive = {}
    /\ serverWatchCalls = [c \in RemoteWatchCalls |-> 0]
    /\ vfile = [type |-> "none", mtime |-> 0, size |-> 0]
    /\ vreq = IdleRequest
    /\ dfs = [k \in 1..MaxDepth |-> "none"]
    /\ store = [root \in {"s", "S", "t", "c"} |->
                   [rel \in {"", "/f", "/d", "/d/g"} |-> [type |-> "none", content |-> 0]]]
    /\ mv = [pc |-> "idle", op |-> "none", mode |-> "none", target |-> "s", same |-> TRUE,
             overwrite |-> FALSE, fastCopy |-> FALSE, inner |-> FALSE,
             atCall |-> [rel \in {"", "/f", "/d", "/d/g"} |-> [type |-> "none", content |-> 0]],
             work |-> {}, readdirFailed |-> FALSE, returned |-> "none",
             caseSensitive |-> TRUE, recursive |-> FALSE, useTrash |-> FALSE,
             trash |-> FALSE, calls |-> {}, error |-> "none",
             before |-> [root \in {"s", "S", "t", "c"} |->
                           [rel \in {"", "/f", "/d", "/d/g"} |-> [type |-> "none", content |-> 0]]]]
    /\ opEvents = << >>
    /\ fres = [pc |-> "idle",
               version |-> [has |-> FALSE, mtime |-> 0, size |-> 0, etag |-> << >>,
                            value |-> << >>],
               before |-> [has |-> FALSE, mtime |-> 0, size |-> 0, etag |-> << >>,
                           value |-> << >>],
               passed |-> {}, seen |-> [type |-> "none", mtime |-> 0, size |-> 0],
               options |-> [hasMtime |-> FALSE, mtime |-> 0, hasEtag |-> FALSE, etag |-> << >>],
               last |-> "none", outcome |-> "none", returned |-> << >>]
    /\ participants = << >>
    /\ correlationIds = 0
    /\ wc = [c \in 1..MaxCalls |->
               [pc |-> "idle", operation |-> "none", timeout |-> 0, index |-> 1,
                cancelled |-> FALSE, timers |-> {}, invoked |-> {}, rejected |-> {},
                abandoned |-> {}, skipped |-> {}, executed |-> FALSE, error |-> "none",
                events |-> << >>]]
    /\ en = [pc |-> "idle", op |-> "none", source |-> {}, target |-> {}, error |-> "none",
             calls |-> {}]
    /\ srv = [watchers |-> [req \in ServerRequests |-> 0], toDispose |-> << >>,
              disposed |-> FALSE, watches |-> << >>]
    /\ dp = [op |-> "none", source |-> {}, target |-> {}, same |-> FALSE, shape |-> "none",
             calls |-> {}, error |-> "none"]
    /\ provider = "none"
    /\ regs = << >>
    /\ regEvents = [added |-> 0, removed |-> 0]
    /\ failedRegs = 0
    /\ changes = [fired |-> FALSE, rebroadcast |-> FALSE, late |-> FALSE]
    /\ ops = [o \in 1..MaxOps |->
                 [pc |-> "idle", provider |-> "none", byHandle |-> TRUE,
                  called |-> FALSE, late |-> FALSE]]
    /\ mk = [c \in 1..MaxMkdirp |->
                [pc |-> "idle", target |-> 0, directory |-> 0, found |-> "pending",
                 mkdirs |-> 0, tolerated |-> 0, returned |-> << >>]]

\* ------------------------------------------------------- write: write queue

toMapKey(p, r) == IF "PathCaseSensitive" \in caps[p] THEN r ELSE toLowerCase(r)

\* a queue that ignores the tail stored for the key
ensureWriteQueue_NoChain(t, p, r, rec) ==
    LET queueKey == toMapKey(p, r) IN
    /\ tasks' = [tasks EXCEPT ![t] = [rec EXCEPT !.pc = "queued", !.key = queueKey, !.pred = 0]]
    /\ writeQueues' = [writeQueues EXCEPT ![queueKey] = t]
    /\ enqOrder' = [enqOrder EXCEPT ![queueKey] = Append(@, t)]

\* ensureWriteQueue: the task (rec) is chained on the tail promise of its key,
\* (writeQueues.get(queueKey) || Promise.resolve()).then(task, task), and
\* becomes the new tail
ensureWriteQueue(t, p, r, rec) ==
    LET queueKey == toMapKey(p, r) IN
    /\ tasks' = [tasks EXCEPT ![t] = [rec EXCEPT !.pc = "queued", !.key = queueKey,
                                                 !.pred = writeQueues[queueKey]]]
    /\ writeQueues' = [writeQueues EXCEPT ![queueKey] = t]
    /\ enqOrder' = [enqOrder EXCEPT ![queueKey] = Append(@, t)]

\* the task function called at once instead of being chained on the tail
RunTask_NoWait(t) ==
    /\ tasks[t].pc = "queued"
    /\ tasks' = [tasks EXCEPT ![t].ran = TRUE,
                    ![t].pc = CASE tasks[t].kind = "writeUnbuffered" ->
                                     IF tasks[t].input.shape = "stream"
                                     THEN "consume" ELSE "writeFile"
                                [] tasks[t].kind = "pipeBuffered" -> "openSource"
                                [] tasks[t].kind = "pipeUnbuffered" -> "readFile"
                                [] OTHER -> "open"]
    /\ execOrder' = [execOrder EXCEPT ![tasks[t].key] = Append(@, t)]
    /\ UNCHANGED <<caps, files, handles, writeQueues, enqOrder, watchVars, remoteVars, opVars>>

\* .then(task) instead of .then(task, task): after a rejected predecessor the
\* task is skipped and its promise takes over the predecessor's rejection
RunTask_OnFulfilledOnly(t) ==
    /\ tasks[t].pc = "queued"
    /\ tasks[t].pred # 0 => tasks[tasks[t].pred].pc \in Settled
    /\ IF tasks[t].pred # 0 /\ tasks[tasks[t].pred].pc = "rejected"
       THEN /\ tasks' = [tasks EXCEPT ![t].pc = "rejected"]
            /\ UNCHANGED execOrder
       ELSE /\ tasks' = [tasks EXCEPT ![t].ran = TRUE,
                            ![t].pc = CASE tasks[t].kind = "writeUnbuffered" ->
                                             IF tasks[t].input.shape = "stream"
                                             THEN "consume" ELSE "writeFile"
                                        [] tasks[t].kind = "pipeBuffered" -> "openSource"
                                        [] tasks[t].kind = "pipeUnbuffered" -> "readFile"
                                        [] OTHER -> "open"]
            /\ execOrder' = [execOrder EXCEPT ![tasks[t].key] = Append(@, t)]
    /\ UNCHANGED <<caps, files, handles, writeQueues, enqOrder, watchVars, remoteVars, opVars>>

\* the continuation installed by .then(task, task): once the promise the task
\* was chained on has settled, fulfilled or rejected, the task function is
\* entered and issues its first provider call
RunTask(t) ==
    /\ tasks[t].pc = "queued"
    /\ tasks[t].pred # 0 => tasks[tasks[t].pred].pc \in Settled
    /\ tasks' = [tasks EXCEPT ![t].ran = TRUE,
                    ![t].pc = CASE tasks[t].kind = "writeUnbuffered" ->
                                     IF tasks[t].input.shape = "stream"
                                     THEN "consume" ELSE "writeFile"
                                [] tasks[t].kind = "pipeBuffered" -> "openSource"
                                [] tasks[t].kind = "pipeUnbuffered" -> "readFile"
                                [] OTHER -> "open"]
    /\ execOrder' = [execOrder EXCEPT ![tasks[t].key] = Append(@, t)]
    /\ UNCHANGED <<caps, files, handles, writeQueues, enqOrder, watchVars, remoteVars, opVars>>

\* --------------------------------------------------------- write: writeFile

\* writeFile(resource, bufferOrReadableOrStream) up to the point where the
\* write is enqueued: the input is consumed up to three chunks when the
\* provider can write whole files, then the write is enqueued unbuffered or
\* buffered.  The awaits before that point (provider lookup, validateWriteFile,
\* mkdirp) change nothing the queue reads, so the call and the enqueue are one
\* step, taken at the moment of the enqueue
writeFileFor(t, r, input0, call) ==
    LET rec == [call EXCEPT !.resource = r, !.given = concat(input0.chunks)]
        p == scheme(r)
        limited == hasReadWriteCapability(p) /\ input0.shape # "buffer"
        input == IF limited THEN consumeWithLimit(input0, 3) ELSE input0
    IN
    /\ tasks[t].pc = "idle"
    /\ \A u \in Tasks : u < t => tasks[u].pc # "idle"
    /\ IF ~hasOpenReadWriteCloseCapability(p)
               \/ (hasReadWriteCapability(p) /\ input.shape = "buffer")
       THEN ensureWriteQueue(t, p, r, [rec EXCEPT !.kind = "writeUnbuffered", !.input = input])
       ELSE ensureWriteQueue(t, p, r,
                [rec EXCEPT !.kind = "writeBuffered",
                            !.input = IF input.shape = "buffer"
                                      THEN [input EXCEPT !.shape = "readable"] ELSE input])
    /\ UNCHANGED <<caps, files, handles, execOrder, watchVars, remoteVars, opVars>>

\* writeFile called by a client of the service
writeFile(t, r, input0) == writeFileFor(t, r, input0, [IdleTask EXCEPT !.op = "writeFile"])

\* ------------------------------------------------- write: the queued tasks

\* the promise of the task settles; what the task held is dropped
settle(rec, pc) ==
    [rec EXCEPT !.pc = pc, !.failed = FALSE, !.handle = FALSE, !.srcHandle = FALSE, !.chunk = 1,
                !.buffer = << >>, !.len = 0, !.posInFile = 0, !.posInBuffer = 0, !.total = 0]

\* a finally block that closes the target handle and forgets the source handle
finallyClose_TargetOnly(hs, t, rec) ==
    IF rec.pc # "close" THEN hs
    ELSE [hs EXCEPT ![t].target = IF rec.handle THEN @ + 1 ELSE @]

\* the finally blocks of doWriteBuffered, doPipeBufferedQueued and
\* doPipeUnbufferedToBufferedQueued: on entering them (rec.pc = "close")
\* provider.close is called for every handle the task holds
finallyClose(hs, t, rec) ==
    IF rec.pc # "close" THEN hs
    ELSE [hs EXCEPT ![t].source = IF rec.srcHandle THEN @ + 1 ELSE @,
                    ![t].target = IF rec.handle THEN @ + 1 ELSE @]

RECURSIVE nextChunk(_)
\* readable.read() or the next 'data' event of the stream: an empty chunk
\* writes nothing; after the last chunk a readable returns null, a stream
\* still has to emit 'end' or 'error'
nextChunk(rec) ==
    IF rec.chunk > Len(rec.input.chunks)
    THEN [rec EXCEPT !.pc = IF rec.input.shape = "stream" THEN "end" ELSE "close"]
    ELSE IF Len(rec.input.chunks[rec.chunk]) = 0
    THEN nextChunk([rec EXCEPT !.chunk = @ + 1])
    ELSE [rec EXCEPT !.pc = "write", !.buffer = rec.input.chunks[rec.chunk],
                     !.len = Len(rec.input.chunks[rec.chunk]),
                     !.posInBuffer = 0, !.total = 0]

\* a loop that forgets posInFile += chunk.byteLength
afterWriteBuffer_NoAdvance(rec) ==
    CASE rec.kind = "writeBuffered" -> nextChunk([rec EXCEPT !.chunk = @ + 1])
      [] rec.kind = "pipeBuffered" ->
            [rec EXCEPT !.posInBuffer = IF @ + rec.len = BUFFER_SIZE THEN 0 ELSE @ + rec.len,
                        !.total = 0,
                        !.pc = IF rec.len > 0 THEN "read" ELSE "close"]
      [] OTHER -> [rec EXCEPT !.pc = "close"]

\* what follows a completed doWriteBuffer (totalBytesWritten = length) in the
\* loop that called it
afterWriteBuffer(rec) ==
    CASE rec.kind = "writeBuffered" ->
            nextChunk([rec EXCEPT !.posInFile = @ + rec.len, !.chunk = @ + 1])
      [] rec.kind = "pipeBuffered" ->
            [rec EXCEPT !.posInFile = @ + rec.len,
                        !.posInBuffer = IF @ + rec.len = BUFFER_SIZE THEN 0 ELSE @ + rec.len,
                        !.total = 0,
                        !.pc = IF rec.len > 0 THEN "read" ELSE "close"]
      [] OTHER -> [rec EXCEPT !.pc = "close"]

\* doWriteUnbufferedQueued: a stream is first consumed into one buffer
\* (streamToBuffer), which fails when the stream emits 'error'
doWriteUnbufferedQueued(t) ==
    /\ tasks[t].pc = "consume"
    /\ \E err \in BOOLEAN :
        tasks' = [tasks EXCEPT ![t] = IF err THEN settle(@, "rejected")
                                     ELSE [@ EXCEPT !.pc = "writeFile"]]
    /\ UNCHANGED <<caps, files, handles, writeQueues, enqOrder, execOrder, watchVars, remoteVars, opVars>>

\* doWriteStreamBufferedQueued: after its last chunk was written the stream
\* emits 'end' (the promise resolves) or 'error' (it rejects); either way the
\* finally block of doWriteBuffered closes the handle
doWriteStreamBufferedQueued(t) ==
    /\ tasks[t].pc = "end"
    /\ \E err \in BOOLEAN :
        LET next == [tasks[t] EXCEPT !.pc = "close", !.failed = err] IN
        /\ tasks' = [tasks EXCEPT ![t] = next]
        /\ handles' = finallyClose(handles, t, next)
    /\ UNCHANGED <<caps, files, writeQueues, enqOrder, execOrder, watchVars, remoteVars, opVars>>

\* provider.writeFile(resource, buffer, {create, overwrite}) completes: the
\* file holds the buffer, or the call failed and the file is as it was
providerWriteFile(t) ==
    LET rec == tasks[t]
        data == IF rec.kind = "pipeUnbuffered" THEN rec.buffer ELSE concat(rec.input.chunks)
    IN
    /\ rec.pc = "writeFile"
    /\ \/ /\ files' = [files EXCEPT ![fileOf(rec.resource)] =
                            [exists |-> TRUE, content |-> data]]
          /\ tasks' = [tasks EXCEPT ![t] = settle(rec, "resolved")]
       \/ /\ tasks' = [tasks EXCEPT ![t] = settle(rec, "rejected")]
          /\ UNCHANGED files
    /\ UNCHANGED <<caps, handles, writeQueues, enqOrder, execOrder, watchVars, remoteVars, opVars>>

\* provider.open(resource, {create: true}) of doWriteBuffered and
\* doPipeUnbufferedToBufferedQueued completes: the file is created or
\* truncated and a handle returned, or the call failed (no handle exists)
providerOpen(t) ==
    LET rec == tasks[t]
        next == IF rec.kind = "writeBuffered"
                THEN nextChunk([rec EXCEPT !.handle = TRUE])
                ELSE [rec EXCEPT !.handle = TRUE, !.pc = "readFile"]
    IN
    /\ rec.pc = "open"
    /\ \/ /\ files' = [files EXCEPT ![fileOf(rec.resource)] =
                            [exists |-> TRUE, content |-> << >>]]
          /\ handles' = finallyClose([handles EXCEPT ![t].target = 0], t, next)
          /\ tasks' = [tasks EXCEPT ![t] = next]
       \/ /\ tasks' = [tasks EXCEPT ![t] = settle(rec, "rejected")]
          /\ UNCHANGED <<files, handles>>
    /\ UNCHANGED <<caps, writeQueues, enqOrder, execOrder, watchVars, remoteVars, opVars>>

\* a loop that stops one byte short
doWriteBufferDone_OneShort(totalBytesWritten, length) == ~(totalBytesWritten + 1 < length)

\* an if in place of the while: one provider.write call ends the loop
doWriteBufferDone_SingleWrite(totalBytesWritten, length) == TRUE

\* the exit test of doWriteBuffer's loop, while (totalBytesWritten < length)
doWriteBufferDone(totalBytesWritten, length) == ~(totalBytesWritten < length)

\* doWriteBuffer: one provider.write(handle, posInFile + totalBytesWritten,
\* buffer, posInBuffer + totalBytesWritten, length - totalBytesWritten)
\* completes, having written n of the requested bytes, or fails
doWriteBuffer(t) ==
    LET rec == tasks[t]
        f == fileOf(rec.resource)
    IN
    /\ rec.pc = "write"
    /\ \/ \E n \in 1..(rec.len - rec.total) :
            LET bytes == SubSeq(rec.buffer, rec.posInBuffer + rec.total + 1,
                                rec.posInBuffer + rec.total + n)
                wrote == [rec EXCEPT !.total = @ + n]
                next == IF doWriteBufferDone(wrote.total, rec.len)
                        THEN afterWriteBuffer(wrote) ELSE wrote
            IN
            /\ files' = [files EXCEPT ![f].content =
                            writeAt(@, rec.posInFile + rec.total, bytes)]
            /\ tasks' = [tasks EXCEPT ![t] = next]
            /\ handles' = finallyClose(handles, t, next)
       \/ LET next == [rec EXCEPT !.pc = "close", !.failed = TRUE] IN
            /\ tasks' = [tasks EXCEPT ![t] = next]
            /\ handles' = finallyClose(handles, t, next)
            /\ UNCHANGED files
    /\ UNCHANGED <<caps, writeQueues, enqOrder, execOrder, watchVars, remoteVars, opVars>>

\* the provider.close calls issued by the finally block complete: the task
\* rejects when its body threw or a close failed, else it resolves
providerClose(t) ==
    /\ tasks[t].pc = "close"
    /\ \E ok \in BOOLEAN :
        tasks' = [tasks EXCEPT ![t] =
                    settle(@, IF ok /\ ~tasks[t].failed THEN "resolved" ELSE "rejected")]
    /\ UNCHANGED <<caps, files, handles, writeQueues, enqOrder, execOrder, watchVars, remoteVars, opVars>>

\* ------------------------------------------------------- write: doCopyFile

\* doCopyFile(sourceProvider, source, targetProvider, target): the pipe is
\* chosen by the capabilities of the two providers.  doMoveCopy calls it for
\* a source and a target that are different resources
doCopyFile(t, src, dst) ==
    LET sp == scheme(src)
        tp == scheme(dst)
        rec == [IdleTask EXCEPT !.op = "copy", !.source = src, !.resource = dst]
    IN
    /\ tasks[t].pc = "idle"
    /\ \A u \in Tasks : u < t => tasks[u].pc # "idle"
    /\ fileOf(src) # fileOf(dst)
    /\ IF hasOpenReadWriteCloseCapability(sp) /\ hasOpenReadWriteCloseCapability(tp)
       THEN ensureWriteQueue(t, tp, dst, [rec EXCEPT !.kind = "pipeBuffered"])
       ELSE IF hasOpenReadWriteCloseCapability(sp) /\ hasReadWriteCapability(tp)
       THEN \* doPipeBufferedToUnbuffered reads the source before it enqueues
            /\ tasks' = [tasks EXCEPT ![t] = [rec EXCEPT !.pc = "readSource"]]
            /\ UNCHANGED <<writeQueues, enqOrder>>
       ELSE IF hasReadWriteCapability(sp) /\ hasOpenReadWriteCloseCapability(tp)
       THEN ensureWriteQueue(t, tp, dst, [rec EXCEPT !.kind = "pipeUnbufferedToBuffered"])
       ELSE ensureWriteQueue(t, tp, dst, [rec EXCEPT !.kind = "pipeUnbuffered"])
    /\ UNCHANGED <<caps, files, handles, execOrder, watchVars, remoteVars, opVars>>

\* doPipeBufferedToUnbuffered: streamToBuffer(readFileBuffered(source)) has
\* delivered the source's bytes (or failed); the buffer is written unbuffered
doPipeBufferedToUnbuffered(t) ==
    LET rec == tasks[t]
        src == files[fileOf(rec.source)]
    IN
    /\ rec.pc = "readSource"
    /\ \/ /\ src.exists
          /\ ensureWriteQueue(t, scheme(rec.resource), rec.resource,
                [rec EXCEPT !.kind = "writeUnbuffered",
                            !.input = [shape |-> "buffer", chunks |-> << src.content >>]])
       \/ /\ tasks' = [tasks EXCEPT ![t] = settle(rec, "rejected")]
          /\ UNCHANGED <<writeQueues, enqOrder>>
    /\ UNCHANGED <<caps, files, handles, execOrder, watchVars, remoteVars, opVars>>

\* doPipeBufferedQueued: sourceProvider.open(source, {create: false})
\* completes; then targetProvider.open is called
providerOpenSource(t) ==
    LET rec == tasks[t] IN
    /\ rec.pc = "openSource"
    /\ \/ /\ files[fileOf(rec.source)].exists
          /\ handles' = [handles EXCEPT ![t].source = 0]
          /\ tasks' = [tasks EXCEPT ![t] = [rec EXCEPT !.srcHandle = TRUE,
                                                       !.pc = "openTarget"]]
       \/ /\ tasks' = [tasks EXCEPT ![t] = settle(rec, "rejected")]
          /\ UNCHANGED handles
    /\ UNCHANGED <<caps, files, writeQueues, enqOrder, execOrder, watchVars, remoteVars, opVars>>

\* doPipeBufferedQueued: targetProvider.open(target, {create: true})
\* completes; the buffer of BUFFER_SIZE bytes is allocated and the first
\* read issued, or the open failed and the finally block runs
providerOpenTarget(t) ==
    LET rec == tasks[t] IN
    /\ rec.pc = "openTarget"
    /\ \/ /\ files' = [files EXCEPT ![fileOf(rec.resource)] =
                            [exists |-> TRUE, content |-> << >>]]
          /\ handles' = [handles EXCEPT ![t].target = 0]
          /\ tasks' = [tasks EXCEPT ![t] = [rec EXCEPT !.handle = TRUE,
                                                       !.buffer = [i \in 1..BUFFER_SIZE |-> 0],
                                                       !.pc = "read"]]
       \/ LET next == [rec EXCEPT !.pc = "close", !.failed = TRUE] IN
          /\ tasks' = [tasks EXCEPT ![t] = next]
          /\ handles' = finallyClose(handles, t, next)
          /\ UNCHANGED files
    /\ UNCHANGED <<caps, writeQueues, enqOrder, execOrder, watchVars, remoteVars, opVars>>

\* doPipeBufferedQueued: sourceProvider.read(sourceHandle, posInFile, buffer,
\* posInBuffer, buffer.byteLength - posInBuffer) completes with bytesRead
\* bytes (0 at the end of the file), or fails
providerRead(t) ==
    LET rec == tasks[t]
        src == files[fileOf(rec.source)].content
        avail == IF Len(src) > rec.posInFile THEN Len(src) - rec.posInFile ELSE 0
        want == BUFFER_SIZE - rec.posInBuffer
        most == IF avail < want THEN avail ELSE want
    IN
    /\ rec.pc = "read"
    /\ \/ \E bytesRead \in (IF most = 0 THEN {0} ELSE 1..most) :
            LET got == [rec EXCEPT
                          !.buffer = writeAt(@, rec.posInBuffer,
                                        SubSeq(src, rec.posInFile + 1, rec.posInFile + bytesRead)),
                          !.len = bytesRead, !.total = 0, !.pc = "write"]
                next == IF bytesRead = 0 THEN afterWriteBuffer(got) ELSE got
            IN
            /\ tasks' = [tasks EXCEPT ![t] = next]
            /\ handles' = finallyClose(handles, t, next)
       \/ LET next == [rec EXCEPT !.pc = "close", !.failed = TRUE] IN
            /\ tasks' = [tasks EXCEPT ![t] = next]
            /\ handles' = finallyClose(handles, t, next)
    /\ UNCHANGED <<caps, files, writeQueues, enqOrder, execOrder, watchVars, remoteVars, opVars>>

\* sourceProvider.readFile(source) of doPipeUnbufferedQueued and
\* doPipeUnbufferedToBufferedQueued completes with the source's bytes, or fails
providerReadFile(t) ==
    LET rec == tasks[t]
        src == files[fileOf(rec.source)]
        got == [rec EXCEPT !.buffer = src.content, !.len = Len(src.content),
                           !.posInBuffer = 0, !.total = 0]
    IN
    /\ rec.pc = "readFile"
    /\ \/ /\ src.exists
          /\ LET next == IF rec.kind = "pipeUnbuffered" THEN [got EXCEPT !.pc = "writeFile"]
                         ELSE IF got.len = 0 THEN afterWriteBuffer(got)
                         ELSE [got EXCEPT !.pc = "write"]
             IN /\ tasks' = [tasks EXCEPT ![t] = next]
                /\ handles' = finallyClose(handles, t, next)
       \/ LET next == IF rec.kind = "pipeUnbuffered" THEN settle(rec, "rejected")
                      ELSE [rec EXCEPT !.pc = "close", !.failed = TRUE]
          IN /\ tasks' = [tasks EXCEPT ![t] = next]
             /\ handles' = finallyClose(handles, t, next)
    /\ UNCHANGED <<caps, files, writeQueues, enqOrder, execOrder, watchVars, remoteVars, opVars>>

\* -------------------------------------- write: createFile, return, readFile

\* a createFile that never looks for the file
createFile_NoValidation(t, r, input0, overwrite) ==
    writeFileFor(t, r, input0, [IdleTask EXCEPT !.op = "createFile", !.overwrite = overwrite,
                                                !.existed = files[fileOf(r)].exists])

\* createFile(resource, bufferOrReadableOrStream, options): without overwrite
\* a resource that exists throws FILE_MODIFIED_SINCE, else writeFile is called
createFile(t, r, input0, overwrite) ==
    LET call == [IdleTask EXCEPT !.op = "createFile", !.overwrite = overwrite,
                                 !.existed = files[fileOf(r)].exists]
    IN
    IF ~overwrite /\ files[fileOf(r)].exists
    THEN /\ tasks[t].pc = "idle"
         /\ \A u \in Tasks : u < t => tasks[u].pc # "idle"
         /\ tasks' = [tasks EXCEPT ![t] = [call EXCEPT !.resource = r, !.input = input0,
                                                      !.given = concat(input0.chunks),
                                                      !.pc = "rejected",
                                                      !.error = "FILE_MODIFIED_SINCE"]]
         /\ UNCHANGED <<caps, files, handles, writeQueues, enqOrder, execOrder,
                        watchVars, remoteVars, opVars>>
    ELSE writeFileFor(t, r, input0, call)

\* an event fired for writeFile as well
operationOf_Always(op) == {"CREATE"}

\* the operations writeFile and createFile fire on onDidRunOperation once
\* the stat is there: writeFile none, createFile CREATE
operationOf(op) == IF op = "createFile" THEN {"CREATE"} ELSE {}

\* writeFile after its write: resolve(resource, {resolveMetadata: true})
\* answers and is returned, or fails; createFile then fires CREATE with the
\* stat writeFile returned
writeFileReturn(t, ok) ==
    LET rec == tasks[t]
        file == files[fileOf(rec.resource)]
        fileStat == Len(file.content)
    IN
    /\ rec.op \in {"writeFile", "createFile"}
    /\ rec.pc = "resolved"
    /\ IF ok /\ file.exists
       THEN /\ tasks' = [tasks EXCEPT ![t] = [rec EXCEPT !.pc = "returned", !.stat = fileStat]]
            /\ opEvents' = IF operationOf(rec.op) = {} THEN opEvents
                           ELSE Append(opEvents, [operation |-> "CREATE", resource |-> rec.resource,
                                                  stat |-> fileStat])
       ELSE /\ tasks' = [tasks EXCEPT ![t] = [rec EXCEPT !.pc = "rejected", !.error = "resolve"]]
            /\ UNCHANGED opEvents
    /\ UNCHANGED <<caps, files, handles, writeQueues, enqOrder, execOrder,
                   watchVars, remoteVars, exceptMove, store, mv>>

\* doReadAsFileStream called by readFile (preferUnbuffered): the whole file
\* is read with provider.readFile unless the provider cannot
readsUnbuffered(p) ==
    ~hasOpenReadWriteCloseCapability(p) \/ hasReadWriteCapability(p)

\* readFile(resource) is called
readFile(t, r) ==
    /\ tasks[t].pc = "idle"
    /\ \A u \in Tasks : u < t => tasks[u].pc # "idle"
    /\ tasks' = [tasks EXCEPT ![t] =
                    [IdleTask EXCEPT !.op = "readFile", !.resource = r, !.ran = TRUE,
                        !.kind = IF readsUnbuffered(scheme(r)) THEN "readUnbuffered"
                                 ELSE "readBuffered",
                        !.pc = IF readsUnbuffered(scheme(r)) THEN "readUnbuffered"
                               ELSE "readBuffered"]]
    /\ UNCHANGED <<caps, files, handles, writeQueues, enqOrder, execOrder,
                   watchVars, remoteVars, opVars>>

\* readFileUnbuffered: provider.readFile(resource) answers with the bytes of
\* the file, which streamToBuffer hands to the caller, or fails
readFileUnbuffered(t) ==
    LET rec == tasks[t]
        file == files[fileOf(rec.resource)]
    IN
    /\ rec.pc = "readUnbuffered"
    /\ \E ok \in BOOLEAN :
          tasks' = [tasks EXCEPT ![t] = IF ok /\ file.exists
                                       THEN [rec EXCEPT !.pc = "returned", !.buffer = file.content]
                                       ELSE [rec EXCEPT !.pc = "rejected", !.error = "read"]]
    /\ UNCHANGED <<caps, files, handles, writeQueues, enqOrder, execOrder,
                   watchVars, remoteVars, opVars>>

\* readFileBuffered: the read stream asks provider.read for up to BUFFER_SIZE
\* bytes at its position and emits what it got; 0 bytes end the stream and
\* streamToBuffer hands the chunks, concatenated, to the caller
readFileBuffered(t) ==
    LET rec == tasks[t]
        file == files[fileOf(rec.resource)]
        avail == IF Len(file.content) > rec.posInFile THEN Len(file.content) - rec.posInFile ELSE 0
        most == IF avail < BUFFER_SIZE THEN avail ELSE BUFFER_SIZE
    IN
    /\ rec.pc = "readBuffered"
    /\ \/ /\ file.exists
          /\ \E bytesRead \in (IF most = 0 THEN {0} ELSE 1..most) :
                tasks' = [tasks EXCEPT ![t] =
                    IF bytesRead = 0 THEN [rec EXCEPT !.pc = "returned"]
                    ELSE [rec EXCEPT !.posInFile = @ + bytesRead,
                                     !.buffer = @ \o SubSeq(file.content, rec.posInFile + 1,
                                                            rec.posInFile + bytesRead)]]
       \/ tasks' = [tasks EXCEPT ![t] = [rec EXCEPT !.pc = "rejected", !.error = "read"]]
    /\ UNCHANGED <<caps, files, handles, writeQueues, enqOrder, execOrder,
                   watchVars, remoteVars, opVars>>

\* the byte sequences written: empty, shorter than BUFFER_SIZE, of
\* BUFFER_SIZE bytes, and longer
WriteSizes == {0, BUFFER_SIZE - 1, BUFFER_SIZE, BUFFER_SIZE + 1}

\* the bytes written
bytesOf(n) == [i \in 1..n |-> 1 + ((i + 1) % 2)]

\* a write of n bytes in each shape: one TextBuffer; a readable or stream of
\* one chunk, of two, and of four (more than consumeWithLimit takes)
InputsOf(n) ==
    LET b == bytesOf(n)
        k == IF n = 0 THEN 0 ELSE 1
        head == SubSeq(b, 1, k)
        tail == SubSeq(b, k + 1, n)
    IN
    {[shape |-> "buffer", chunks |-> << b >>]} \cup
    {[shape |-> shape, chunks |-> chunks] :
        shape \in {"readable", "stream"},
        chunks \in {<< b >>, << head, tail >>, << head, << >>, << >>, tail >>}}

\* no call is in progress: every task is idle or has returned or failed
NoCallPending == \A t \in Tasks : tasks[t].pc \in {"idle", "returned", "rejected"}

\* the calls are made one after the other, and the last one is a readFile
NextWriteRead ==
    \/ \E t \in Tasks \ {MaxTasks}, r \in Resources, n \in WriteSizes : \E input \in InputsOf(n) :
          NoCallPending /\ writeFile(t, r, input)
    \/ \E t \in Tasks \ {MaxTasks}, r \in Resources, n \in WriteSizes, overwrite \in BOOLEAN :
          \E input \in InputsOf(n) : NoCallPending /\ createFile(t, r, input, overwrite)
    \/ \E t \in Tasks, r \in Resources : NoCallPending /\ readFile(t, r)
    \/ \E t \in Tasks : RunTask(t)
    \/ \E t \in Tasks : doWriteUnbufferedQueued(t)
    \/ \E t \in Tasks : doWriteStreamBufferedQueued(t)
    \/ \E t \in Tasks : providerWriteFile(t)
    \/ \E t \in Tasks : providerOpen(t)
    \/ \E t \in Tasks : doWriteBuffer(t)
    \/ \E t \in Tasks : providerClose(t)
    \/ \E t \in Tasks, ok \in BOOLEAN : writeFileReturn(t, ok)
    \/ \E t \in Tasks : readFileUnbuffered(t)
    \/ \E t \in Tasks : readFileBuffered(t)

SpecWriteRead == Init /\ [][NextWriteRead]_vars

\* ------------------------------------------------- write: the state machine

NextWrite ==
    \/ \E t \in Tasks, r \in Resources, input \in Inputs : writeFile(t, r, input)
    \/ \E t \in Tasks, src \in CopySources, dst \in CopySources : doCopyFile(t, src, dst)
    \/ \E t \in Tasks : doPipeBufferedToUnbuffered(t)
    \/ \E t \in Tasks : RunTask(t)
    \/ \E t \in Tasks : doWriteUnbufferedQueued(t)
    \/ \E t \in Tasks : doWriteStreamBufferedQueued(t)
    \/ \E t \in Tasks : providerWriteFile(t)
    \/ \E t \in Tasks : providerOpen(t)
    \/ \E t \in Tasks : doWriteBuffer(t)
    \/ \E t \in Tasks : providerClose(t)
    \/ \E t \in Tasks : providerOpenSource(t)
    \/ \E t \in Tasks : providerOpenTarget(t)
    \/ \E t \in Tasks : providerRead(t)
    \/ \E t \in Tasks : providerReadFile(t)

SpecWrite == Init /\ [][NextWrite]_vars

\* every step but the calls themselves: continuations run and provider calls
\* complete
TaskStep(t) ==
    \/ doPipeBufferedToUnbuffered(t)
    \/ RunTask(t)
    \/ doWriteUnbufferedQueued(t)
    \/ doWriteStreamBufferedQueued(t)
    \/ providerWriteFile(t)
    \/ providerOpen(t)
    \/ doWriteBuffer(t)
    \/ providerClose(t)
    \/ providerOpenSource(t)
    \/ providerOpenTarget(t)
    \/ providerRead(t)
    \/ providerReadFile(t)

\* the event loop runs every pending continuation and every provider call
\* that was issued completes
SpecWriteFair == SpecWrite /\ \A t \in Tasks : WF_vars(TaskStep(t))

\* ------------------------------------------------------------ watch: helpers

\* toWatchKey(provider, resource, options): the map key of the resource and
\* options.recursive (and the excludes, which are empty here)
toWatchKey(p, r, options) == <<toMapKey(p, r), options.recursive>>

\* Disposable.create(func): whether a dispose() call that follows callsBefore
\* earlier calls on the same disposable runs func; the disposable is the plain
\* wrapper { dispose: func }, so every call does
Disposable_create(callsBefore) == TRUE

\* the key a watch call is going to use (its provider is registered)
keyOf(s) == toWatchKey(scheme(subs[s].resource), subs[s].resource, subs[s].options)

\* the watch call s was made for a registered provider and with key k
CalledFor(s, k) ==
    /\ subs[s].pc # "idle"
    /\ scheme(subs[s].resource) \in Providers
    /\ keyOf(s) = k

\* the disposer invocations so far that repeated an earlier one
RepeatedDisposals ==
    Cardinality({p \in Subs \X (1..MaxRepeatedDisposals) : p[2] < subs[p[1]].calls})

\* an unref that leaves the entry of the key in activeWatchers
unref_NoDelete(ws, aw, s) ==
    LET w == subs[s].watcher
        c == ws[w].count - 1 IN
    [watchers |-> [ws EXCEPT ![w].count = c,
                             ![w].disposes = IF c = 0 THEN @ + 1 ELSE @],
     activeWatchers |-> aw]

\* the function of the disposable doWatch returns: the count of the watcher
\* goes down and, at 0, the provider's watch is disposed and the key deleted
unref(ws, aw, s) ==
    LET w == subs[s].watcher
        c == ws[w].count - 1 IN
    [watchers |-> [ws EXCEPT ![w].count = c,
                             ![w].disposes = IF c = 0 THEN @ + 1 ELSE @],
     activeWatchers |-> IF c = 0 THEN [aw EXCEPT ![subs[s].key] = 0] ELSE aw]

\* ------------------------------------------------------------ watch: actions

\* watch(resource, options) up to its return: doWatch is started and awaits
\* the provider, the caller holds the disposer
watch(s, r, options) ==
    /\ subs[s].pc = "idle"
    /\ \A u \in Subs : u < s => subs[u].pc # "idle"
    /\ subs' = [subs EXCEPT ![s] = [IdleSub EXCEPT !.pc = "doWatch", !.resource = r,
                                                   !.options = options]]
    /\ lateCalls' =
          IF scheme(r) \in Providers
             /\ \E u \in Subs : CalledFor(u, toWatchKey(scheme(r), r, options)) /\ subs[u].calls > 0
          THEN lateCalls \cup {toWatchKey(scheme(r), r, options)}
          ELSE lateCalls
    /\ UNCHANGED <<activeWatchers, watchers, earlyDisposals, writeVars, remoteVars, opVars>>

\* doWatch after the provider has been awaited: without a provider for the
\* scheme the promise rejects and watch only logs the error; else the watcher
\* of the key is looked up or created with a new provider.watch, and counted
doWatch(s) ==
    /\ subs[s].pc = "doWatch"
    /\ IF scheme(subs[s].resource) \notin Providers
       THEN /\ subs' = [subs EXCEPT ![s].pc = "failed"]
            /\ UNCHANGED <<activeWatchers, watchers>>
       ELSE LET key == keyOf(s)
                found == activeWatchers[key]
                w == IF found # 0 THEN found ELSE Len(watchers) + 1 IN
            /\ watchers' = IF found # 0
                           THEN [watchers EXCEPT ![w].count = @ + 1]
                           ELSE Append(watchers, [key |-> key, count |-> 1, disposes |-> 0])
            /\ activeWatchers' = [activeWatchers EXCEPT ![key] = w]
            /\ subs' = [subs EXCEPT ![s].pc = "created", ![s].key = key, ![s].watcher = w]
    /\ UNCHANGED <<lateCalls, earlyDisposals, writeVars, remoteVars, opVars>>

\* a callback that wires the disposable in whether or not watchDisposed is set
onDoWatchFulfilled_AlwaysWire(s) ==
    /\ subs[s].pc = "created"
    /\ subs' = [subs EXCEPT ![s].pc = "wired", ![s].watchDisposable = "unref"]
    /\ UNCHANGED <<activeWatchers, watchers>>
    /\ UNCHANGED <<lateCalls, earlyDisposals, writeVars, remoteVars, opVars>>

\* the callback watch chains on doWatch: a watch disposed meanwhile is
\* released at once, else its disposable replaces the flag setter
onDoWatchFulfilled(s) ==
    /\ subs[s].pc = "created"
    /\ IF subs[s].watchDisposed
       THEN LET st == unref(watchers, activeWatchers, s) IN
            /\ watchers' = st.watchers
            /\ activeWatchers' = st.activeWatchers
            /\ subs' = [subs EXCEPT ![s].pc = "wired", ![s].unrefs = @ + 1]
       ELSE /\ subs' = [subs EXCEPT ![s].pc = "wired", ![s].watchDisposable = "unref"]
            /\ UNCHANGED <<activeWatchers, watchers>>
    /\ UNCHANGED <<lateCalls, earlyDisposals, writeVars, remoteVars, opVars>>

\* the disposer watch returned is invoked: watchDisposable.dispose(), which
\* sets watchDisposed until the disposable of doWatch is wired in
disposeWatch(s) ==
    /\ subs[s].pc # "idle"
    /\ subs[s].calls = 0 \/ RepeatedDisposals < MaxRepeatedDisposals
    /\ Disposable_create(subs[s].calls)
    /\ IF subs[s].watchDisposable = "flag"
       THEN /\ subs' = [subs EXCEPT ![s].calls = @ + 1, ![s].watchDisposed = TRUE]
            /\ UNCHANGED <<activeWatchers, watchers>>
       ELSE LET st == unref(watchers, activeWatchers, s) IN
            /\ watchers' = st.watchers
            /\ activeWatchers' = st.activeWatchers
            /\ subs' = [subs EXCEPT ![s].calls = @ + 1, ![s].unrefs = @ + 1]
    /\ earlyDisposals' =
          IF scheme(subs[s].resource) \in Providers
             /\ \E u \in Subs : CalledFor(u, keyOf(s)) /\ subs[u].pc = "doWatch"
          THEN earlyDisposals \cup {keyOf(s)}
          ELSE earlyDisposals
    /\ UNCHANGED <<lateCalls, writeVars, remoteVars, opVars>>

NextWatch ==
    \/ \E s \in Subs, call \in WatchCalls :
          watch(s, call[1], [recursive |-> call[2], excludes |-> << >>])
    \/ \E s \in Subs : doWatch(s)
    \/ \E s \in Subs : onDoWatchFulfilled(s)
    \/ \E s \in Subs : disposeWatch(s)

\* watch and doWatch read one capability, PathCaseSensitive of the provider of
\* the resource: the other capabilities are fixed
InitWatch ==
    /\ Init
    /\ "FileOpenReadWriteClose" \in caps["a"]
    /\ "FileReadWrite" \in caps["b"]

SpecWatch == InitWatch /\ [][NextWatch]_vars

\* ----------------------------------------------------------- remote: actions

\* RemoteFileSystemProvider.watch(resource, opts): the next watcher id is
\* taken and server.watch is called; the returned disposable is toUnwatch
remoteWatch(uri, opts) ==
    /\ watcherSequence < MaxRemoteWatches
    /\ watcherSequence' = watcherSequence + 1
    /\ serverWatchCalls' =
          [serverWatchCalls EXCEPT ![<<watcherSequence, uri, opts.recursive>>] = @ + 1]
    /\ remoteActive' = remoteActive \cup
          {[watcher |-> watcherSequence, uri |-> uri, options |-> opts, since |-> connections]}
    /\ UNCHANGED <<watchOptions, connections, writeVars, watchVars, opVars>>

\* the function of toUnwatch: the entry of the watcher leaves watchOptions
\* and server.unwatch is called
toUnwatch(a) ==
    /\ a \in remoteActive
    /\ watchOptions' = {e \in watchOptions : e.watcher # a.watcher}
    /\ remoteActive' = remoteActive \ {a}
    /\ UNCHANGED <<watcherSequence, connections, serverWatchCalls, writeVars, watchVars, opVars>>

\* reconnect(): server.watch is called for every entry of watchOptions
reconnect(calls) ==
    [c \in RemoteWatchCalls |->
        calls[c] + Cardinality({e \in watchOptions :
                       <<e.watcher, e.uri, e.options.recursive>> = c})]

\* the transport fires onDidOpenConnection: the first event only replaces the
\* listener by one that calls reconnect, every later event reaches reconnect
onDidOpenConnection ==
    /\ connections < MaxConnections
    /\ connections' = connections + 1
    /\ serverWatchCalls' = IF connections = 0 THEN serverWatchCalls
                           ELSE reconnect(serverWatchCalls)
    /\ UNCHANGED <<watcherSequence, watchOptions, remoteActive, writeVars, watchVars, opVars>>

NextRemote ==
    \/ \E uri \in RemoteUris, recursive \in BOOLEAN :
          remoteWatch(uri, [recursive |-> recursive, excludes |-> << >>])
    \/ \E a \in remoteActive : toUnwatch(a)
    \/ onDidOpenConnection

SpecRemote == Init /\ [][NextRemote]_vars

\* ------------------------------------------------- preconditions: helpers

RECURSIVE toString(_, _)
\* Number.prototype.toString(radix): the digits of n, most significant first
toString(n, radix) ==
    IF n < radix THEN <<n>> ELSE toString(n \div radix, radix) \o <<n % radix>>

\* etag({mtime, size}): mtime.toString(29) + size.toString(31)
etag(mtime, size) == toString(mtime, 29) \o toString(size, 31)

\* the sentinel that switches the etag checks off: the empty string
ETAG_DISABLED == << >>

\* toFileOperationResult(error): a FileOperationError keeps its result, a
\* provider's FileNotFound becomes FILE_NOT_FOUND, anything else FILE_OTHER_ERROR
toFileOperationResult(error) ==
    IF error \in {"FILE_IS_DIRECTORY", "FILE_MODIFIED_SINCE", "FILE_NOT_MODIFIED_SINCE",
                  "FILE_NOT_FOUND"}
    THEN error
    ELSE IF error = "FileNotFound" THEN "FILE_NOT_FOUND" ELSE "FILE_OTHER_ERROR"

\* a dirty-write check that computes the etag from the mtime on disk
validateWriteFile_DiskMtime(stat, options) ==
    IF stat.type = "none" THEN "undefined"
    ELSE IF stat.type = "dir" THEN "FILE_IS_DIRECTORY"
    ELSE IF /\ options.hasMtime /\ options.hasEtag /\ options.etag # ETAG_DISABLED
            /\ options.mtime < stat.mtime
            /\ options.etag # etag(stat.mtime, stat.size)
    THEN "FILE_MODIFIED_SINCE"
    ELSE "stat"

\* validateWriteFile(provider, resource, options) once provider.stat has
\* answered with stat (type "none": the stat call threw): "undefined" and
\* "stat" are its two returns, the other values the results it throws with
validateWriteFile(stat, options) ==
    IF stat.type = "none" THEN "undefined"
    ELSE IF stat.type = "dir" THEN "FILE_IS_DIRECTORY"
    ELSE IF /\ options.hasMtime /\ options.hasEtag /\ options.etag # ETAG_DISABLED
            /\ options.mtime < stat.mtime
            /\ options.etag # etag(options.mtime, stat.size)
    THEN "FILE_MODIFIED_SINCE"
    ELSE "stat"

\* validateReadFile(resource, options) once resolve has answered: "stat" is
\* its return, the other values the results it fails with
validateReadFile(stat, options) ==
    IF stat.type = "none" THEN "FileNotFound"
    ELSE IF stat.type = "dir" THEN "FILE_IS_DIRECTORY"
    ELSE IF /\ options.hasEtag /\ options.etag # ETAG_DISABLED
            /\ options.etag = etag(stat.mtime, stat.size)
    THEN "FILE_NOT_MODIFIED_SINCE"
    ELSE "stat"

\* a read that never waits for the validation
awaitsValidation_Never(options) == FALSE

\* doReadAsFileStream awaits statPromise before it starts to read when the
\* caller gave an etag that is not ETAG_DISABLED
awaitsValidation(options) == options.hasEtag /\ options.etag # ETAG_DISABLED

\* ------------------------------------------------- preconditions: actions

\* another client changes what is stored under the URI: the mtime advances or
\* stays (coarse timestamps), the size is any
modifyFile(type, mtime, size) ==
    /\ mtime >= vfile.mtime
    /\ [type |-> type, mtime |-> mtime, size |-> IF type = "file" THEN size ELSE 0] # vfile
    /\ vfile' = [type |-> type, mtime |-> mtime, size |-> IF type = "file" THEN size ELSE 0]
    /\ UNCHANGED <<vreq, serviceVars, exceptValidate>>

\* writeFile(resource, data, options) is called
vWriteFile(options) ==
    /\ vreq.pc = "idle"
    /\ vreq' = [IdleRequest EXCEPT !.pc = "validateWriteFile", !.op = "writeFile",
                                   !.options = options]
    /\ UNCHANGED <<vfile, serviceVars, exceptValidate>>

\* a writeFile that opens its target before the validation
vValidateWriteFile_OpensFirst ==
    LET outcome == validateWriteFile(vfile, vreq.options) IN
    /\ vreq.pc = "validateWriteFile"
    /\ vreq' = [vreq EXCEPT !.seen = vfile, !.calls = @ \cup {"open", "stat"},
                            !.validated = outcome,
                            !.pc = CASE outcome = "undefined" -> "mkdirp"
                                     [] outcome = "stat" -> "write"
                                     [] OTHER -> "done",
                            !.result = IF outcome \in {"undefined", "stat"} THEN @
                                       ELSE toFileOperationResult(outcome)]
    /\ UNCHANGED <<vfile, serviceVars, exceptValidate>>

\* writeFile: provider.stat answers inside validateWriteFile; the write is
\* refused, or goes on to mkdirp (no stat) or straight to the write
vValidateWriteFile ==
    LET outcome == validateWriteFile(vfile, vreq.options) IN
    /\ vreq.pc = "validateWriteFile"
    /\ vreq' = [vreq EXCEPT !.seen = vfile, !.calls = @ \cup {"stat"},
                            !.validated = outcome,
                            !.pc = CASE outcome = "undefined" -> "mkdirp"
                                     [] outcome = "stat" -> "write"
                                     [] OTHER -> "done",
                            !.result = IF outcome \in {"undefined", "stat"} THEN @
                                       ELSE toFileOperationResult(outcome)]
    /\ UNCHANGED <<vfile, serviceVars, exceptValidate>>

\* writeFile: mkdirp(provider, resource.parent) has run for a file that had
\* no stat
vMkdirp ==
    /\ vreq.pc = "mkdirp"
    /\ \E ok \in BOOLEAN :
          vreq' = [vreq EXCEPT !.calls = @ \cup {"mkdir"},
                               !.pc = IF ok THEN "write" ELSE "done",
                               !.result = IF ok THEN @ ELSE toFileOperationResult("Unknown")]
    /\ UNCHANGED <<vfile, serviceVars, exceptValidate>>

\* writeFile: the queued write has run against the provider (open / write /
\* close or writeFile) and stored size bytes, or failed
vWrite(size) ==
    /\ vreq.pc = "write"
    /\ \/ /\ vfile' = [type |-> "file", size |-> size,
                       mtime |-> IF vfile.mtime < MaxMtime THEN vfile.mtime + 1 ELSE vfile.mtime]
          /\ vreq' = [vreq EXCEPT !.calls = @ \cup {"write"}, !.pc = "done", !.result = "ok"]
       \/ /\ vreq' = [vreq EXCEPT !.calls = @ \cup {"write"}, !.pc = "done",
                                  !.result = toFileOperationResult("Unknown")]
          /\ UNCHANGED vfile
    /\ UNCHANGED <<serviceVars, exceptValidate>>

\* readFile / readFileStream(resource, options) is called: doReadAsFileStream
\* starts validateReadFile
vReadFile(options) ==
    /\ vreq.pc = "idle"
    /\ vreq' = [IdleRequest EXCEPT !.pc = "read", !.op = "readFile", !.options = options]
    /\ UNCHANGED <<vfile, serviceVars, exceptValidate>>

\* doReadAsFileStream: statPromise settles; a failed validation cancels the
\* token and fails the call
vValidateReadFile ==
    LET outcome == validateReadFile(vfile, vreq.options) IN
    /\ vreq.pc = "read" /\ vreq.validated = "pending"
    /\ vreq' = [vreq EXCEPT !.seen = vfile, !.calls = @ \cup {"stat"},
                            !.validated = outcome,
                            !.pc = IF outcome = "stat" THEN @ ELSE "done",
                            !.result = IF outcome = "stat" THEN @
                                       ELSE toFileOperationResult(outcome)]
    /\ UNCHANGED <<vfile, serviceVars, exceptValidate>>

\* doReadAsFileStream: readFileUnbuffered or readFileBuffered is started,
\* which calls the provider (readFile or open / read / close)
vStartRead ==
    /\ vreq.pc = "read" /\ "read" \notin vreq.calls
    /\ awaitsValidation(vreq.options) => vreq.validated = "stat"
    /\ vreq' = [vreq EXCEPT !.calls = @ \cup {"read"}]
    /\ UNCHANGED <<vfile, serviceVars, exceptValidate>>

\* doReadAsFileStream: Promise.all([statPromise, fileStreamPromise]) resolves
vReadDone ==
    /\ vreq.pc = "read" /\ "read" \in vreq.calls /\ vreq.validated = "stat"
    /\ \E ok \in BOOLEAN :
          vreq' = [vreq EXCEPT !.pc = "done",
                               !.result = IF ok THEN "ok" ELSE toFileOperationResult("Unknown")]
    /\ UNCHANGED <<vfile, serviceVars, exceptValidate>>

RequestOptions ==
    [hasMtime : BOOLEAN, mtime : 0..MaxMtime, hasEtag : BOOLEAN,
     etag : {ETAG_DISABLED} \cup {etag(m, s) : m \in 0..MaxMtime, s \in 0..MaxSize}]

\* an option that is not given carries no value
WellFormed(options) ==
    /\ ~options.hasMtime => options.mtime = 0
    /\ ~options.hasEtag => options.etag = ETAG_DISABLED

NextValidate ==
    \/ \E type \in {"none", "file", "dir"}, mtime \in 0..MaxMtime, size \in 0..MaxSize :
          modifyFile(type, mtime, size)
    \/ \E options \in RequestOptions : WellFormed(options) /\ vWriteFile(options)
    \/ vValidateWriteFile
    \/ vMkdirp
    \/ \E size \in 0..MaxSize : vWrite(size)
    \/ \E options \in RequestOptions :
          WellFormed(options) /\ ~options.hasMtime /\ vReadFile(options)
    \/ vValidateReadFile
    \/ vStartRead
    \/ vReadDone

\* the precondition checks read no capability
InitValidate == Init /\ caps = FixedCaps

SpecValidate == InitValidate /\ [][NextValidate]_vars

\* ------------------------------------------------------------ FileResource

\* _version === undefined
NoVersion == [has |-> FALSE, mtime |-> 0, size |-> 0, etag |-> << >>, value |-> << >>]

\* { stat }: the version FileResource records from the FileContent of a
\* read or save; value stands for the bytes that came with the stat
versionOf(stat) ==
    [has |-> TRUE, mtime |-> stat.mtime, size |-> stat.size,
     etag |-> etag(stat.mtime, stat.size), value |-> <<stat.mtime, stat.size>>]

IdleResource ==
    [pc |-> "idle", version |-> NoVersion, before |-> NoVersion, passed |-> {},
     seen |-> [type |-> "none", mtime |-> 0, size |-> 0],
     options |-> [hasMtime |-> FALSE, mtime |-> 0, hasEtag |-> FALSE, etag |-> << >>],
     last |-> "none", outcome |-> "none", returned |-> << >>]

\* the version objects a caller passes in ResourceSaveOptions, by their own
\* keys: none, the object FileResource.version returns, and such an object
\* that carries an etag of its own as well
PassedVersions == {{}, {"stat"}, {"stat", "etag"}}

\* FileResourceVersion.is(version): 'mtime' in version || 'etag' in version
FileResourceVersion_is(keys) == keys # {} /\ ("mtime" \in keys \/ "etag" \in keys)

\* the options doSaveContents gives writeFile: etag and mtime of
\* version.stat when FileResourceVersion.is(version), else both undefined
saveOptions(keys, version) ==
    IF FileResourceVersion_is(keys)
    THEN [hasMtime |-> TRUE, mtime |-> version.mtime, hasEtag |-> TRUE, etag |-> version.etag]
    ELSE [hasMtime |-> FALSE, mtime |-> 0, hasEtag |-> FALSE, etag |-> << >>]

\* a read that never sends the etag
readOptions_NoEtag(version) ==
    [hasMtime |-> FALSE, mtime |-> 0, hasEtag |-> FALSE, etag |-> << >>]

\* the options readContents gives readFile: { etag: this._version?.stat.etag }
readOptions(version) ==
    [hasMtime |-> FALSE, mtime |-> 0, hasEtag |-> version.has,
     etag |-> IF version.has THEN version.etag ELSE << >>]

\* readContents(): fileService.readFile(this.uri, { etag }) is called
readContents ==
    /\ fres.pc = "idle" /\ vreq.pc = "idle"
    /\ fres' = [fres EXCEPT !.pc = "readContents", !.before = fres.version, !.passed = {},
                            !.options = readOptions(fres.version),
                            !.last = "read", !.outcome = "pending", !.returned = << >>]
    /\ vreq' = [IdleRequest EXCEPT !.pc = "read", !.op = "readFile",
                                   !.options = readOptions(fres.version)]
    /\ UNCHANGED <<vfile, serviceVars, dirVars, regVars, moveVars, wcVars, entryVars, serverVars, dispatchVars>>

\* readContents: readFile has answered or thrown
readContentsDone ==
    /\ fres.pc = "readContents" /\ vreq.pc = "done"
    /\ fres' = CASE vreq.result = "ok" ->
                      [fres EXCEPT !.pc = "idle", !.version = versionOf(vreq.seen),
                                   !.seen = vreq.seen, !.outcome = "ok",
                                   !.returned = versionOf(vreq.seen).value]
                 [] vreq.result = "FILE_NOT_MODIFIED_SINCE" ->
                      [fres EXCEPT !.pc = "idle", !.seen = vreq.seen, !.outcome = "cached",
                                   !.returned = fres.version.value]
                 [] vreq.result = "FILE_NOT_FOUND" ->
                      [fres EXCEPT !.pc = "idle", !.version = NoVersion, !.seen = vreq.seen,
                                   !.outcome = "NotFound"]
                 [] OTHER ->
                      [fres EXCEPT !.pc = "idle", !.seen = vreq.seen, !.outcome = vreq.result]
    /\ vreq' = IdleRequest
    /\ UNCHANGED <<vfile, serviceVars, dirVars, regVars, moveVars, wcVars, entryVars, serverVars, dispatchVars>>

\* saveContents(content, options): doSaveContents calls
\* fileService.writeFile(this.uri, value, { etag, mtime }); keys are the keys
\* of options.version, whose stat is the one of the resource's version
saveContents(keys) ==
    /\ fres.pc = "idle" /\ vreq.pc = "idle"
    /\ keys # {} => fres.version.has
    /\ fres' = [fres EXCEPT !.pc = "saveContents", !.before = fres.version, !.passed = keys,
                            !.options = saveOptions(keys, fres.version),
                            !.last = "save", !.outcome = "pending", !.returned = << >>]
    /\ vreq' = [IdleRequest EXCEPT !.pc = "validateWriteFile", !.op = "writeFile",
                                   !.options = saveOptions(keys, fres.version)]
    /\ UNCHANGED <<vfile, serviceVars, dirVars, regVars, moveVars, wcVars, entryVars, serverVars, dispatchVars>>

\* saveContents: writeFile has returned the stat it resolved after the write,
\* or thrown; FILE_MODIFIED_SINCE becomes ResourceError.OutOfSync
saveContentsDone ==
    /\ fres.pc = "saveContents" /\ vreq.pc = "done"
    /\ fres' = CASE vreq.result = "ok" /\ vfile.type # "none" ->
                      [fres EXCEPT !.pc = "idle", !.version = versionOf(vfile),
                                   !.seen = vreq.seen, !.outcome = "ok"]
                 [] vreq.result = "ok" /\ vfile.type = "none" ->
                      [fres EXCEPT !.pc = "idle", !.seen = vreq.seen, !.outcome = "FILE_NOT_FOUND"]
                 [] vreq.result = "FILE_MODIFIED_SINCE" ->
                      [fres EXCEPT !.pc = "idle", !.seen = vreq.seen, !.outcome = "OutOfSync"]
                 [] OTHER ->
                      [fres EXCEPT !.pc = "idle", !.seen = vreq.seen, !.outcome = vreq.result]
    /\ vreq' = IdleRequest
    /\ UNCHANGED <<vfile, serviceVars, dirVars, regVars, moveVars, wcVars, entryVars, serverVars, dispatchVars>>

NextResource ==
    \/ \E type \in {"none", "file", "dir"}, mtime \in 0..MaxMtime, size \in 0..MaxSize :
          modifyFile(type, mtime, size)
    \/ readContents
    \/ readContentsDone
    \/ \E keys \in PassedVersions : saveContents(keys)
    \/ saveContentsDone
    \/ vValidateWriteFile
    \/ vMkdirp
    \/ \E size \in 0..MaxSize : vWrite(size)
    \/ vValidateReadFile
    \/ vStartRead
    \/ vReadDone

SpecResource == InitValidate /\ [][NextResource]_vars


\* ---------------------------------------------------------------- mkdirp

\* the directories below the root on one branch: depth k is /d1/.../dk and
\* depth 0 the root
Depths == 1..MaxDepth

MkdirpCalls == 1..MaxMkdirp

IdleMkdirp ==
    [pc |-> "idle", target |-> 0, directory |-> 0, found |-> "pending", mkdirs |-> 0,
     tolerated |-> 0, returned |-> << >>]

\* what the provider stores at depth k; the root is a directory
typeAt(fs, k) == IF k = 0 THEN "dir" ELSE fs[k]

\* provider.stat(directory): the type, or FileNotFound
providerStat(fs, k) == IF typeAt(fs, k) = "none" THEN "FileNotFound" ELSE typeAt(fs, k)

\* provider.mkdir(directory): FileExists when something is stored there,
\* FileNotFound when the parent is not a directory, else the directory is made
providerMkdir(fs, k) ==
    IF typeAt(fs, k) # "none" THEN "FileExists"
    ELSE IF typeAt(fs, k - 1) # "dir" THEN "FileNotFound"
    ELSE "ok"

\* a walk that stops at whatever exists
mkdirpWalk_AnyExisting(stat) ==
    CASE stat \in {"dir", "file"} -> "break"
      [] stat = "FileNotFound" -> "up"
      [] OTHER -> "throw"

\* the body of the while loop of mkdirp for the answer of provider.stat: a
\* directory ends the walk, a file throws inside the try and is rethrown by
\* the catch (its code is not FileNotFound), FileNotFound moves up
mkdirpWalk(stat) ==
    CASE stat = "dir" -> "break"
      [] stat = "file" -> "throw"
      [] stat = "FileNotFound" -> "up"
      [] OTHER -> "throw"

\* the body of the for loop of mkdirp for the outcome of provider.mkdir
mkdirpCreate(result) == IF result \in {"ok", "FileExists"} THEN "next" ELSE "throw"

\* mkdirp(provider, directory) is called (by createFolder, writeFile, move or
\* copy); the root needs no walk and no directory
mkdirp(c, dir) ==
    /\ mk[c].pc = "idle"
    /\ \A b \in MkdirpCalls : b < c => mk[b].pc # "idle"
    /\ mk' = [mk EXCEPT ![c] =
                 IF dir = 0
                 THEN [IdleMkdirp EXCEPT !.pc = "done", !.found = "root", !.returned = dfs]
                 ELSE [IdleMkdirp EXCEPT !.pc = "walk", !.target = dir, !.directory = dir]]
    /\ UNCHANGED <<dfs, serviceVars, exceptDir>>

\* mkdirp: provider.stat(directory) settles in the while loop; error is an
\* error of the provider other than FileNotFound
mkdirpStat(c, error) ==
    LET stat == IF error THEN "Unknown" ELSE providerStat(dfs, mk[c].directory)
        step == mkdirpWalk(stat)
        up   == mk[c].directory - 1 IN
    /\ mk[c].pc = "walk"
    /\ mk' = [mk EXCEPT ![c] =
                 CASE step = "throw" -> [@ EXCEPT !.pc = "failed", !.found = stat]
                   [] step = "break" -> [@ EXCEPT !.found = stat,
                                                  !.pc = IF mk[c].directory = mk[c].target
                                                         THEN "done" ELSE "create",
                                                  !.returned = IF mk[c].directory = mk[c].target
                                                               THEN dfs ELSE << >>]
                   [] OTHER -> [@ EXCEPT !.directory = up,
                                         !.pc = IF up = 0 THEN "create" ELSE "walk",
                                         !.found = IF up = 0 THEN "root" ELSE "pending"]]
    /\ UNCHANGED <<dfs, serviceVars, exceptDir>>

\* mkdirp: one round of the for loop, provider.mkdir of the next missing
\* directory settles; error is an error of the provider itself
mkdirpMkdir(c, error) ==
    LET next   == mk[c].directory + 1
        result == IF error THEN "Unknown" ELSE providerMkdir(dfs, next)
        step   == mkdirpCreate(result)
        fs     == IF result = "ok" THEN [dfs EXCEPT ![next] = "dir"] ELSE dfs IN
    /\ mk[c].pc = "create"
    /\ dfs' = fs
    /\ mk' = [mk EXCEPT ![c] =
                 IF step = "throw"
                 THEN [@ EXCEPT !.pc = "failed", !.mkdirs = @ + 1]
                 ELSE [@ EXCEPT !.directory = next, !.mkdirs = @ + 1,
                                !.tolerated = IF result = "FileExists" THEN @ + 1 ELSE @,
                                !.pc = IF next = mk[c].target THEN "done" ELSE "create",
                                !.returned = IF next = mk[c].target THEN fs ELSE << >>]]
    /\ UNCHANGED <<serviceVars, exceptDir>>

\* another operation on an overlapping path stores a file (provider.writeFile
\* or open with create): the parent is a directory and nothing is there
storeFile(k) ==
    /\ typeAt(dfs, k) = "none" /\ typeAt(dfs, k - 1) = "dir"
    /\ dfs' = [dfs EXCEPT ![k] = "file"]
    /\ UNCHANGED <<mk, serviceVars, exceptDir>>

\* another operation deletes what is at depth k, with everything below it
providerDelete(k) ==
    /\ typeAt(dfs, k) # "none"
    /\ dfs' = [j \in Depths |-> IF j >= k THEN "none" ELSE dfs[j]]
    /\ UNCHANGED <<mk, serviceVars, exceptDir>>

NextMkdirp ==
    \/ \E c \in MkdirpCalls, dir \in 0..MaxDepth : mkdirp(c, dir)
    \/ \E c \in MkdirpCalls, error \in BOOLEAN : mkdirpStat(c, error)
    \/ \E c \in MkdirpCalls, error \in BOOLEAN : mkdirpMkdir(c, error)
    \/ \E k \in Depths : storeFile(k)
    \/ \E k \in Depths : providerDelete(k)

InitMkdirp == Init /\ caps = FixedCaps

SpecMkdirp == InitMkdirp /\ [][NextMkdirp]_vars

\* ------------------------------------------------------ provider registry

\* the providers registerProvider is called with, all for one scheme
RegProviders == {"p", "q"}

Ops == 1..MaxOps

\* an operation: provider is what withProvider got from the map, byHandle
\* tells whether that is what the handles said then, called and late whether
\* it has called the provider, and done so when no handle of it was live
IdleOp == [pc |-> "idle", provider |-> "none", byHandle |-> TRUE,
           called |-> FALSE, late |-> FALSE]

\* the providers that have a registration whose handle was never disposed
LiveProviders == {regs[i].provider : i \in {j \in DOMAIN regs : regs[j].disposals = 0}}

\* the disposals of registration handles that were not the first of their handle
RepeatedUnregistrations ==
    Cardinality({<<i, n>> \in (DOMAIN regs) \X (2..(MaxRepeatedDisposals + 1)) :
                    regs[i].disposals >= n})

\* a registration that takes the place of the provider that is registered
registerProvider_Overwrite(x) ==
    /\ Len(regs) < MaxRegistrations
    /\ provider' = x
    /\ regEvents' = [regEvents EXCEPT !.added = @ + 1]
    /\ regs' = Append(regs, [provider |-> x, disposals |-> 0, subscribed |-> TRUE])
    /\ UNCHANGED <<failedRegs, changes, ops, serviceVars, exceptReg>>

\* registerProvider(scheme, x): throws when the map has the scheme; else the
\* provider is stored, the registration event fired and the two events of the
\* provider subscribed to
registerProvider(x) ==
    IF provider # "none"
    THEN /\ failedRegs < MaxFailedRegistrations
         /\ failedRegs' = failedRegs + 1
         /\ UNCHANGED <<provider, regs, regEvents, changes, ops, serviceVars, exceptReg>>
    ELSE /\ Len(regs) < MaxRegistrations
         /\ provider' = x
         /\ regEvents' = [regEvents EXCEPT !.added = @ + 1]
         /\ regs' = Append(regs, [provider |-> x, disposals |-> 0, subscribed |-> TRUE])
         /\ UNCHANGED <<failedRegs, changes, ops, serviceVars, exceptReg>>

\* a handle whose disposal leaves the subscriptions to the provider in place
disposeRegistration_KeepSubscribed(i) ==
    /\ i \in DOMAIN regs
    /\ regs[i].disposals = 0 \/ RepeatedUnregistrations < MaxRepeatedDisposals
    /\ regEvents' = [regEvents EXCEPT !.removed = @ + 1]
    /\ provider' = "none"
    /\ regs' = [regs EXCEPT ![i].disposals = @ + 1]
    /\ UNCHANGED <<failedRegs, changes, ops, serviceVars, exceptReg>>

\* the function of the handle registerProvider returned for registration i:
\* the event is fired, the scheme deleted from the map and the subscriptions
\* disposed; Disposable.create runs it on every call of dispose
disposeRegistration(i) ==
    /\ i \in DOMAIN regs
    /\ regs[i].disposals = 0 \/ RepeatedUnregistrations < MaxRepeatedDisposals
    /\ regEvents' = [regEvents EXCEPT !.removed = @ + 1]
    /\ provider' = "none"
    /\ regs' = [regs EXCEPT ![i].disposals = @ + 1, ![i].subscribed = FALSE]
    /\ UNCHANGED <<failedRegs, changes, ops, serviceVars, exceptReg>>

\* provider x fires onDidChangeFile: every subscription made by
\* registerProvider that is not disposed fires _onDidFilesChange
onDidChangeFile(x) ==
    LET listening == {i \in DOMAIN regs : regs[i].provider = x /\ regs[i].subscribed} IN
    /\ changes' = [fired |-> TRUE,
                   rebroadcast |-> changes.rebroadcast \/ listening # {},
                   late |-> changes.late \/ \E i \in listening : regs[i].disposals > 0]
    /\ changes' # changes
    /\ UNCHANGED <<provider, regs, regEvents, failedRegs, ops, serviceVars, exceptReg>>

\* an operation calls withProvider with an absolute-path URI of the scheme:
\* activateProvider runs and is awaited
withProvider(o) ==
    /\ ops[o].pc = "idle"
    /\ \A b \in Ops : b < o => ops[b].pc # "idle"
    /\ ops' = [ops EXCEPT ![o].pc = "activated"]
    /\ UNCHANGED <<provider, regs, regEvents, failedRegs, changes, serviceVars, exceptReg>>

\* withProvider after the await: this.provider.get(scheme), ENOPRO when the
\* map has none
withProviderGet(o) ==
    /\ ops[o].pc = "activated"
    /\ ops' = [ops EXCEPT ![o] = [@ EXCEPT !.pc = IF provider = "none" THEN "ENOPRO" ELSE "running",
                                           !.provider = provider,
                                           !.byHandle = IF provider = "none"
                                                        THEN LiveProviders = {}
                                                        ELSE LiveProviders = {provider}]]
    /\ UNCHANGED <<provider, regs, regEvents, failedRegs, changes, serviceVars, exceptReg>>

\* the operation calls a function of the provider withProvider gave it
providerCall(o) ==
    /\ ops[o].pc = "running"
    /\ ops' = [ops EXCEPT ![o].called = TRUE,
                          ![o].late = @ \/ ops[o].provider \notin LiveProviders]
    /\ ops' # ops
    /\ UNCHANGED <<provider, regs, regEvents, failedRegs, changes, serviceVars, exceptReg>>

\* the operation settles
operationDone(o) ==
    /\ ops[o].pc = "running"
    /\ ops' = [ops EXCEPT ![o].pc = "done"]
    /\ UNCHANGED <<provider, regs, regEvents, failedRegs, changes, serviceVars, exceptReg>>

NextRegistry ==
    \/ \E x \in RegProviders : registerProvider(x)
    \/ \E i \in 1..MaxRegistrations : disposeRegistration(i)
    \/ \E x \in RegProviders : onDidChangeFile(x)
    \/ \E o \in Ops : withProvider(o)
    \/ \E o \in Ops : withProviderGet(o)
    \/ \E o \in Ops : providerCall(o)
    \/ \E o \in Ops : operationDone(o)

InitRegistry == Init /\ caps = FixedCaps

SpecRegistry == InitRegistry /\ [][NextRegistry]_vars

\* ------------------------------------------------------- copy of one file

\* the sizes of the files that are copied: empty, below, equal to and above
\* BUFFER_SIZE, and more than two buffers
CopySizes == 0..(2 * BUFFER_SIZE + 1)

\* the bytes of a file of n bytes
contentOf(n) == [i \in 1..n |-> 1 + (i % 2)]

\* no call is in progress
Quiescent == \A t \in Tasks : tasks[t].pc \in Settled \cup {"idle"}

\* before the first call, a file of n bytes is stored under the URI
storeContent(r, n) ==
    /\ \A t \in Tasks : tasks[t].pc = "idle"
    /\ files[fileOf(r)] # [exists |-> TRUE, content |-> contentOf(n)]
    /\ files' = [files EXCEPT ![fileOf(r)] = [exists |-> TRUE, content |-> contentOf(n)]]
    /\ UNCHANGED <<caps, handles, tasks, writeQueues, enqOrder, execOrder, watchVars, remoteVars, opVars>>

\* copy(source, target) of a file reaches doCopyFile while no other call is
\* in progress
copyFile(t, src, dst) == Quiescent /\ doCopyFile(t, src, dst)

NextCopy ==
    \/ \E r \in CopySources, n \in CopySizes : storeContent(r, n)
    \/ \E t \in Tasks, src \in CopySources, dst \in CopySources : copyFile(t, src, dst)
    \/ \E t \in Tasks : doPipeBufferedToUnbuffered(t)
    \/ \E t \in Tasks : RunTask(t)
    \/ \E t \in Tasks : providerWriteFile(t)
    \/ \E t \in Tasks : providerOpen(t)
    \/ \E t \in Tasks : doWriteBuffer(t)
    \/ \E t \in Tasks : providerClose(t)
    \/ \E t \in Tasks : providerOpenSource(t)
    \/ \E t \in Tasks : providerOpenTarget(t)
    \/ \E t \in Tasks : providerRead(t)
    \/ \E t \in Tasks : providerReadFile(t)

SpecCopy == Init /\ [][NextCopy]_vars

\* ----------------------------------------------------------- move and copy

\* the two URIs of a move or copy: "s" is the source, "t" a target that is
\* another URI, on the same provider or on another one
\* the resources the provider stores something for: the source URI, the URI
\* that differs from it in letter case only, an unrelated URI, and "c", a URI
\* inside the source folder that is none of the paths of Rels
Roots == {"s", "S", "t", "c"}

\* the target URIs of a call: the source URI itself, its case variant, the
\* parent folder of the source, and the unrelated URI
Targets == {"s", "S", "p", "t"}

\* a.isEqualOrParent(b, caseSensitive): a is b or an ancestor of b
isEqualOrParent(a, b, caseSensitive) ==
    \/ IF caseSensitive THEN a = b ELSE toLowerCase(a) = toLowerCase(b)
    \/ a = "p" /\ b \in {"s", "S", "c"}
    \/ a = "s" /\ b = "c"
    \/ a = "S" /\ b = "c" /\ ~caseSensitive

\* the stored resource a URI names: a provider without PathCaseSensitive
\* keeps one resource for both spellings
resourceOf(uri, caseSensitive) == IF caseSensitive THEN uri ELSE toLowerCase(uri)

\* the paths below each of the two URIs: the URI itself, a child, a child
\* folder and a child of that folder
Rels == {"", "/f", "/d", "/d/g"}

parentOf(rel) == IF rel = "/d/g" THEN "/d" ELSE ""

NoNode == [type |-> "none", content |-> 0]

NoTree == [rel \in Rels |-> NoNode]

IdleMove ==
    [pc |-> "idle", op |-> "none", mode |-> "none", target |-> "s", same |-> TRUE,
     overwrite |-> FALSE, fastCopy |-> FALSE, inner |-> FALSE, atCall |-> NoTree,
     work |-> {}, readdirFailed |-> FALSE, returned |-> "none",
     caseSensitive |-> TRUE, recursive |-> FALSE, useTrash |-> FALSE,
     trash |-> FALSE, calls |-> {}, error |-> "none",
     before |-> [root \in Roots |-> NoTree]]

\* the stored resource the target of the call in flight names
targetResource == resourceOf(mv.target, mv.caseSensitive)

\* readdir of the folder at rel of the source: its entries with their types
readdir(rel) ==
    {[rel |-> c, isDirectory |-> store["s"][c].type = "dir"] :
        c \in {k \in Rels : k # "" /\ parentOf(k) = rel /\ store["s"][k].type # "none"}}

\* an event that names the operation the caller asked for
fileOperation_AsCalled(op, mode) == IF op = "move" THEN "MOVE" ELSE "COPY"

\* the operation of the event move and copy fire, from the mode doMoveCopy
\* returned
fileOperation(op, mode) ==
    IF op = "move" THEN (IF mode = "move" THEN "MOVE" ELSE "COPY")
    ELSE (IF mode = "copy" THEN "COPY" ELSE "MOVE")

\* doMoveCopy after mkdirp: a copy goes to the provider's copy or to the
\* traversal, a move to rename or, across providers, into doMoveCopy again
\* with mode 'copy'
doMoveCopyBranch(rec) ==
    IF rec.mode = "copy"
    THEN [rec EXCEPT !.pc = IF rec.same /\ rec.fastCopy THEN "providerCopy" ELSE "resolveSource"]
    ELSE IF rec.same THEN [rec EXCEPT !.pc = "rename"]
    ELSE [rec EXCEPT !.mode = "copy", !.inner = TRUE, !.pc = "doMoveCopy"]

\* before the call, something is stored below one of the two URIs
populate(root, rel, type) ==
    /\ mv.pc = "idle"
    /\ root \in {"S", "c"} => rel = ""
    /\ root = "c" => store["s"][""].type = "dir"
    /\ store[root][rel].type = "none"
    /\ rel # "" => store[root][parentOf(rel)].type = "dir"
    /\ store' = [store EXCEPT ![root][rel] =
                    [type |-> type,
                     content |-> IF type # "file" THEN 0 ELSE IF root = "s" THEN 1 ELSE 2]]
    /\ UNCHANGED <<mv, opEvents, serviceVars, exceptMove>>

\* move(source, target, overwrite) or copy(source, target, overwrite) is
\* called and has its two providers; fastCopy: the provider has FileFolderCopy
moveCopy(op, target, same, overwrite, fastCopy, caseSensitive) ==
    /\ mv.pc = "idle"
    /\ target # "t" => same
    /\ ~caseSensitive => store["S"] = NoTree
    /\ mv' = [IdleMove EXCEPT !.pc = "doMoveCopy", !.op = op, !.mode = op, !.target = target,
                              !.same = same, !.overwrite = overwrite, !.fastCopy = fastCopy,
                              !.caseSensitive = caseSensitive,
                              !.atCall = store["s"], !.before = store]
    /\ UNCHANGED <<store, opEvents, serviceVars, exceptMove>>

\* a check that never takes two spellings for one resource
isSameResourceWithDifferentPathCase_Never(same, caseSensitive, source, target) == FALSE

\* doValidateMoveCopy: the two URIs are on one provider without
\* PathCaseSensitive and are equal once lower-cased
isSameResourceWithDifferentPathCase(same, caseSensitive, source, target) ==
    same /\ ~caseSensitive /\ toLowerCase(source) = toLowerCase(target)

\* a validation that lets a call without overwrite pass over a target that
\* exists
validateMoveCopy_NoConflict(rec, exists) == "none"

\* a validation without the check that the target is the source or one of
\* its ancestors
validateMoveCopy_NoParentCheck(rec, exists) ==
    LET isSame == isSameResourceWithDifferentPathCase(rec.same, rec.caseSensitive, "s", rec.target)
    IN
    IF rec.same /\ isSame /\ rec.mode = "copy" THEN "Error"
    ELSE IF exists /\ ~isSame /\ ~rec.overwrite THEN "FILE_MOVE_CONFLICT"
    ELSE IF exists /\ ~isSame /\ rec.same /\ isEqualOrParent("s", rec.target, rec.caseSensitive)
         THEN "Error"
    ELSE "none"

\* what doValidateMoveCopy throws, "none" when it returns; exists is the
\* answer of exists(target), which is asked for after the first two checks
validateMoveCopy(rec, exists) ==
    LET isSame == isSameResourceWithDifferentPathCase(rec.same, rec.caseSensitive, "s", rec.target)
    IN
    IF rec.same /\ isSame /\ rec.mode = "copy" THEN "Error"
    ELSE IF rec.same /\ ~isSame /\ isEqualOrParent(rec.target, "s", rec.caseSensitive) THEN "Error"
    ELSE IF exists /\ ~isSame /\ ~rec.overwrite THEN "FILE_MOVE_CONFLICT"
    ELSE IF exists /\ ~isSame /\ rec.same /\ isEqualOrParent("s", rec.target, rec.caseSensitive)
         THEN "Error"
    ELSE "none"

\* exists(target), for the targets the provider is asked about
targetExists ==
    IF mv.target = "p" THEN store["s"][""].type # "none"
    ELSE store[targetResource][""].type # "none"

\* a doMoveCopy that validates equal URIs like any other pair
doValidateMoveCopy_EqualValidated ==
    LET exists == store["s"][""].type # "none" IN
    /\ mv.pc = "doMoveCopy"
    /\ mv' = IF exists /\ ~mv.overwrite
             THEN [mv EXCEPT !.pc = "failed", !.error = "FILE_MOVE_CONFLICT"]
             ELSE IF exists /\ mv.target # "p" THEN [mv EXCEPT !.pc = "del"]
             ELSE [mv EXCEPT !.pc = "failed", !.error = "Error"]
    /\ UNCHANGED <<store, opEvents, serviceVars, exceptMove>>

\* doMoveCopy: equal URIs return the mode at once; else doValidateMoveCopy
\* validates and throws, or tells whether the target is to be deleted first
doValidateMoveCopy ==
    LET exists == targetExists
        error == validateMoveCopy(mv, exists)
        isSame == isSameResourceWithDifferentPathCase(mv.same, mv.caseSensitive, "s", mv.target)
    IN
    /\ mv.pc = "doMoveCopy"
    /\ mv' = IF mv.target = "s"
             THEN [mv EXCEPT !.returned = mv.mode, !.pc = "resolveTarget"]
             ELSE IF error # "none" THEN [mv EXCEPT !.pc = "failed", !.error = error]
             ELSE IF exists /\ ~isSame /\ mv.overwrite THEN [mv EXCEPT !.pc = "del"]
             ELSE [mv EXCEPT !.pc = "mkdirp"]
    /\ UNCHANGED <<store, opEvents, serviceVars, exceptMove>>

\* doMoveCopy: del(target, {recursive: true}) deletes the target and fires
\* DELETE, or fails
delTarget(ok) ==
    /\ mv.pc = "del"
    /\ IF ok
       THEN /\ store' = [store EXCEPT ![targetResource] = NoTree]
            /\ opEvents' = Append(opEvents, [operation |-> "DELETE", resource |-> mv.target,
                                             stat |-> "none"])
            /\ mv' = [mv EXCEPT !.pc = "mkdirp", !.calls = @ \cup {"delete"}]
       ELSE /\ mv' = [mv EXCEPT !.pc = "failed", !.error = "provider",
                                !.calls = @ \cup {"delete"}]
            /\ UNCHANGED <<store, opEvents>>
    /\ UNCHANGED <<serviceVars, exceptMove>>

\* doMoveCopy: mkdirp(targetProvider, target.parent) returns or fails;
\* missing: the parent folder is not there and mkdirp calls provider.mkdir
mkdirpParent(ok, missing) ==
    LET called == [mv EXCEPT !.calls = IF missing THEN @ \cup {"mkdir"} ELSE @] IN
    /\ mv.pc = "mkdirp"
    /\ missing => ~mv.inner /\ targetResource = "t"
    /\ mv' = IF ok THEN doMoveCopyBranch(called)
             ELSE [called EXCEPT !.pc = "failed", !.error = "provider"]
    /\ UNCHANGED <<store, opEvents, serviceVars, exceptMove>>

\* sourceProvider.copy(source, target, {overwrite}) of a provider with
\* FileFolderCopy; the provider rejects a target inside the source
providerCopy(ok) ==
    /\ mv.pc = "providerCopy"
    /\ IF ok /\ store["s"][""].type # "none" /\ targetResource # "c"
       THEN /\ store' = [store EXCEPT ![targetResource] = store["s"]]
            /\ mv' = [mv EXCEPT !.returned = "copy", !.pc = "resolveTarget",
                                !.calls = @ \cup {"copy"}]
       ELSE /\ mv' = [mv EXCEPT !.pc = "failed", !.error = "provider",
                                !.calls = @ \cup {"copy"}]
            /\ UNCHANGED store
    /\ UNCHANGED <<opEvents, serviceVars, exceptMove>>

\* sourceProvider.rename(source, target, {overwrite}); the provider rejects a
\* target inside the source
providerRename(ok) ==
    /\ mv.pc = "rename"
    /\ IF ok /\ store["s"][""].type # "none" /\ targetResource # "c"
       THEN /\ store' = IF targetResource = "s" THEN store
                        ELSE [store EXCEPT ![targetResource] = store["s"], !["s"] = NoTree]
            /\ mv' = [mv EXCEPT !.returned = "move", !.pc = "resolveTarget",
                                !.calls = @ \cup {"rename"}]
       ELSE /\ mv' = [mv EXCEPT !.pc = "failed", !.error = "provider",
                                !.calls = @ \cup {"rename"}]
            /\ UNCHANGED store
    /\ UNCHANGED <<opEvents, serviceVars, exceptMove>>

\* doMoveCopy: resolve(source) for the traversal: stat fails (error), or the
\* source is a file, or a folder whose children toFileStat reads with
\* readdir; a readdir that fails (readdirError) leaves children = []
resolveSource(error, readdirError) ==
    LET type == store["s"][""].type
        item == [rel |-> "", isDirectory |-> type = "dir", resolved |-> TRUE,
                 children |-> IF type = "dir" /\ ~readdirError THEN readdir("") ELSE {}]
    IN
    /\ mv.pc = "resolveSource"
    /\ readdirError => ~error /\ type = "dir"
    /\ mv' = IF error \/ type = "none" THEN [mv EXCEPT !.pc = "failed", !.error = "provider"]
             ELSE [mv EXCEPT !.pc = "copying", !.work = {item},
                             !.readdirFailed = @ \/ readdirError]
    /\ UNCHANGED <<store, opEvents, serviceVars, exceptMove>>

\* doCopyFolder's map callback for a child folder: resolve(sourceChild.resource)
resolveChild(item, error, readdirError) ==
    /\ mv.pc = "copying" /\ item \in mv.work
    /\ item.isDirectory /\ ~item.resolved
    /\ readdirError => ~error
    /\ mv' = IF error \/ store["s"][item.rel].type = "none"
             THEN [mv EXCEPT !.pc = "failed", !.error = "provider"]
             ELSE [mv EXCEPT !.work = (@ \ {item}) \cup
                                {[item EXCEPT !.resolved = TRUE,
                                              !.children = IF readdirError THEN {}
                                                           ELSE readdir(item.rel)]},
                             !.readdirFailed = @ \/ readdirError]
    /\ UNCHANGED <<store, opEvents, serviceVars, exceptMove>>

\* doCopyFolder(sourceProvider, sourceFolder, targetProvider, targetFolder):
\* targetProvider.mkdir, then one copy per child of sourceFolder
doCopyFolder(item, ok) ==
    LET made == store[targetResource][item.rel].type = "none" /\ ok IN
    /\ mv.pc = "copying" /\ item \in mv.work
    /\ item.isDirectory /\ item.resolved
    /\ IF made
       THEN /\ store' = [store EXCEPT ![targetResource][item.rel] = [type |-> "dir", content |-> 0]]
            /\ mv' = [mv EXCEPT !.work = (@ \ {item}) \cup
                           {[rel |-> c.rel, isDirectory |-> c.isDirectory, resolved |-> FALSE,
                             children |-> {}] : c \in item.children},
                                !.calls = @ \cup {"mkdir"}]
       ELSE /\ mv' = [mv EXCEPT !.pc = "failed", !.error = "provider",
                                !.calls = @ \cup {"mkdir"}]
            /\ UNCHANGED store
    /\ UNCHANGED <<opEvents, serviceVars, exceptMove>>

\* doCopyFile(sourceProvider, source, targetProvider, target) for the source
\* itself or a child that is no folder: the target holds the bytes of the
\* source, or the pipe fails
doCopyFileDone(item, ok) ==
    /\ mv.pc = "copying" /\ item \in mv.work
    /\ ~item.isDirectory
    /\ IF ok /\ store["s"][item.rel].type = "file"
       THEN /\ store' = [store EXCEPT ![targetResource][item.rel] = store["s"][item.rel]]
            /\ mv' = [mv EXCEPT !.work = @ \ {item}, !.calls = @ \cup {"write"}]
       ELSE /\ mv' = [mv EXCEPT !.pc = "failed", !.error = "provider",
                                !.calls = @ \cup {"write"}]
            /\ UNCHANGED store
    /\ UNCHANGED <<opEvents, serviceVars, exceptMove>>

\* doMoveCopy: every copy of the traversal is done, mode 'copy' returns; a
\* move across providers goes on to delete the source
doMoveCopyReturn ==
    /\ mv.pc = "copying" /\ mv.work = {}
    /\ mv' = IF mv.inner THEN [mv EXCEPT !.pc = "delSource"]
             ELSE [mv EXCEPT !.returned = "copy", !.pc = "resolveTarget"]
    /\ UNCHANGED <<store, opEvents, serviceVars, exceptMove>>

\* doMoveCopy across providers: del(source, {recursive: true}) deletes the
\* source and fires DELETE, or fails; doMoveCopy returns 'copy'
delSource(ok) ==
    /\ mv.pc = "delSource"
    /\ IF ok /\ store["s"][""].type # "none"
       THEN /\ store' = [store EXCEPT !["s"] = NoTree]
            /\ opEvents' = Append(opEvents, [operation |-> "DELETE", resource |-> "s",
                                             stat |-> "none"])
            /\ mv' = [mv EXCEPT !.returned = "copy", !.pc = "resolveTarget",
                                !.calls = @ \cup {"delete"}]
       ELSE /\ mv' = [mv EXCEPT !.pc = "failed", !.error = "provider",
                                !.calls = @ \cup {"delete"}]
            /\ UNCHANGED <<store, opEvents>>
    /\ UNCHANGED <<serviceVars, exceptMove>>

\* move / copy: resolve(target, {resolveMetadata: true}) answers and the
\* event is fired with the stat, or resolve fails and the call with it
fireOperation(ok) ==
    LET stat == store[targetResource][""].type IN
    /\ mv.pc = "resolveTarget"
    /\ IF ok /\ stat # "none"
       THEN /\ opEvents' = Append(opEvents, [operation |-> fileOperation(mv.op, mv.returned),
                                             resource |-> "s", stat |-> stat])
            /\ mv' = [mv EXCEPT !.pc = "done"]
       ELSE /\ mv' = [mv EXCEPT !.pc = "failed", !.error = "provider"]
            /\ UNCHANGED opEvents
    /\ UNCHANGED <<store, serviceVars, exceptMove>>

\* del(resource, {useTrash, recursive}) is called for the source URI and has
\* its provider; trash: the provider has the Trash capability
del(recursive, useTrash, trash) ==
    /\ mv.pc = "idle"
    /\ mv' = [IdleMove EXCEPT !.pc = "del.validate", !.op = "del", !.recursive = recursive,
                              !.useTrash = useTrash, !.trash = trash,
                              !.atCall = store["s"], !.before = store]
    /\ UNCHANGED <<store, opEvents, serviceVars, exceptMove>>

\* del: trash asked of a provider without it throws; a resource that does
\* not exist throws FILE_NOT_FOUND; without recursive the resource is resolved
delValidate ==
    /\ mv.pc = "del.validate"
    /\ mv' = IF mv.useTrash /\ ~mv.trash THEN [mv EXCEPT !.pc = "failed", !.error = "Error"]
             ELSE IF store["s"][""].type = "none"
                  THEN [mv EXCEPT !.pc = "failed", !.error = "FILE_NOT_FOUND"]
             ELSE IF ~mv.recursive THEN [mv EXCEPT !.pc = "del.resolve"]
             ELSE [mv EXCEPT !.pc = "del.delete"]
    /\ UNCHANGED <<store, opEvents, serviceVars, exceptMove>>

\* del: resolve(resource) answers, with children = [] when its readdir
\* failed, or fails; a folder with children throws
delResolve(error, readdirError) ==
    LET children == IF readdirError THEN {} ELSE readdir("") IN
    /\ mv.pc = "del.resolve"
    /\ readdirError => ~error /\ store["s"][""].type = "dir"
    /\ mv' = IF error THEN [mv EXCEPT !.pc = "failed", !.error = "provider"]
             ELSE IF store["s"][""].type = "dir" /\ children # {}
                  THEN [mv EXCEPT !.pc = "failed", !.error = "Error"]
             ELSE [mv EXCEPT !.pc = "del.delete", !.readdirFailed = readdirError]
    /\ UNCHANGED <<store, opEvents, serviceVars, exceptMove>>

\* del: provider.delete(resource, {recursive, useTrash}) removes the resource
\* and DELETE is fired, or rejects
delProvider(ok) ==
    /\ mv.pc = "del.delete"
    /\ IF ok
       THEN /\ store' = [store EXCEPT !["s"] = NoTree]
            /\ opEvents' = Append(opEvents, [operation |-> "DELETE", resource |-> "s",
                                             stat |-> "none"])
            /\ mv' = [mv EXCEPT !.pc = "deleted", !.calls = @ \cup {"delete"}]
       ELSE /\ mv' = [mv EXCEPT !.pc = "failed", !.error = "provider",
                                !.calls = @ \cup {"delete"}]
            /\ UNCHANGED <<store, opEvents>>
    /\ UNCHANGED <<serviceVars, exceptMove>>

NextMove ==
    \/ \E root \in Roots \ {"c"}, rel \in Rels, type \in {"file", "dir"} :
          populate(root, rel, type)
    \/ \E op \in {"move", "copy"}, target \in Targets,
             same, overwrite, fastCopy, caseSensitive \in BOOLEAN :
          moveCopy(op, target, same, overwrite, fastCopy, caseSensitive)
    \/ doValidateMoveCopy
    \/ \E ok \in BOOLEAN : delTarget(ok)
    \/ \E ok, missing \in BOOLEAN : mkdirpParent(ok, missing)
    \/ \E ok \in BOOLEAN : providerCopy(ok)
    \/ \E ok \in BOOLEAN : providerRename(ok)
    \/ \E error, readdirError \in BOOLEAN : resolveSource(error, readdirError)
    \/ \E item \in mv.work, error, readdirError \in BOOLEAN : resolveChild(item, error, readdirError)
    \/ \E item \in mv.work, ok \in BOOLEAN : doCopyFolder(item, ok)
    \/ \E item \in mv.work, ok \in BOOLEAN : doCopyFileDone(item, ok)
    \/ doMoveCopyReturn
    \/ \E ok \in BOOLEAN : delSource(ok)
    \/ \E ok \in BOOLEAN : fireOperation(ok)
    \/ \E recursive, useTrash, trash \in BOOLEAN : del(recursive, useTrash, trash)
    \/ delValidate
    \/ \E error, readdirError \in BOOLEAN : delResolve(error, readdirError)
    \/ \E ok \in BOOLEAN : delProvider(ok)

InitMove == Init /\ caps = FixedCaps

SpecMove == InitMove /\ [][NextMove]_vars

\* move and copy of the source into "c", a URI of its own provider that lies
\* inside it, and into its parent folder
NextMoveInto ==
    \/ \E root \in {"s", "c"}, rel \in Rels, type \in {"file", "dir"} :
          populate(root, rel, type)
    \/ \E op \in {"move", "copy"}, target \in {"c", "p"},
             overwrite, fastCopy, caseSensitive \in BOOLEAN :
          moveCopy(op, target, TRUE, overwrite, fastCopy, caseSensitive)
    \/ doValidateMoveCopy
    \/ \E ok \in BOOLEAN : mkdirpParent(ok, FALSE)
    \/ \E ok \in BOOLEAN : providerCopy(ok)
    \/ \E ok \in BOOLEAN : providerRename(ok)
    \/ \E error, readdirError \in BOOLEAN : resolveSource(error, readdirError)
    \/ \E item \in mv.work, error, readdirError \in BOOLEAN : resolveChild(item, error, readdirError)
    \/ \E item \in mv.work, ok \in BOOLEAN : doCopyFolder(item, ok)
    \/ \E item \in mv.work, ok \in BOOLEAN : doCopyFileDone(item, ok)
    \/ doMoveCopyReturn
    \/ \E ok \in BOOLEAN : fireOperation(ok)

SpecMoveInto == InitMove /\ [][NextMoveInto]_vars

\* ------------------------------------------- WorkingCopyFileService: model
\* The move, copy and delete calls of WorkingCopyFileService; they run
\* concurrently. The call of FileService.move, copy or del is one step with
\* either outcome. Time passes only while a call awaits Promise.race; what
\* follows an await that has settled runs before any timer. The first call is
\* a move, copy or delete made with any timeout, the others are deletes made
\* with the participants switched off.

\* the participants that can be registered
MaxParticipants == 2

\* the largest value of the preference files.participants.timeout, in ticks
MaxTimeout == 2

\* the correlation ids the service hands out before it is left alone
MaxCorrelationIds == 3

Participants == 1..MaxParticipants

Calls == 1..MaxCalls

\* the values of files.participants.timeout
Timeouts == (0 - 1)..MaxTimeout

\* the values of files.participants.timeout a call is made with
TimeoutsOf(c) == IF c = 1 THEN Timeouts ELSE {0}

WorkingCopyOperations == {"MOVE", "COPY", "DELETE"}

\* the operations a call is made for
OperationsOf(c) == IF c = 1 THEN WorkingCopyOperations ELSE {"DELETE"}

registered == {participants[i] : i \in 1..Len(participants)}

\* Array.prototype.splice(index, 1)
splice(seq, index) == SubSeq(seq, 1, index - 1) \o SubSeq(seq, index + 1, Len(seq))

indexOf(seq, p) == CHOOSE i \in 1..Len(seq) : seq[i] = p

IdleWorkingCopy ==
    [pc |-> "idle", operation |-> "none", timeout |-> 0, index |-> 1,
     cancelled |-> FALSE, timers |-> {}, invoked |-> {}, rejected |-> {},
     abandoned |-> {}, skipped |-> {}, executed |-> FALSE, error |-> "none",
     events |-> << >>]

\* addFileOperationParticipant, between calls
addFileOperationParticipant(p) ==
    /\ \A c \in Calls : wc[c].pc = "idle"
    /\ p \notin registered
    /\ participants' = Append(participants, p)
    /\ UNCHANGED <<wc, correlationIds, serviceVars, exceptWc>>

\* the Disposable that addFileOperationParticipant returned, between calls
disposeParticipant(p) ==
    /\ \A c \in Calls : wc[c].pc = "idle"
    /\ p \in registered
    /\ participants' = splice(participants, indexOf(participants, p))
    /\ UNCHANGED <<wc, correlationIds, serviceVars, exceptWc>>

\* runFileOperationParticipants returns at once unless the timeout is positive
participantsRun(timeout) == timeout > 0

\* a variant of afterParticipant in which a rejection leaves the loop
afterParticipant_Veto(outcome) ==
    IF outcome \in {"rejected", "thrown"} THEN "failed" ELSE "loop"

\* try { await Promise.race([promise, timeout]) } catch { console.warn }: the
\* loop goes on whatever the participant and the timer did
afterParticipant(outcome) ==
    CASE outcome = "resolved" -> "loop"
      [] outcome = "timeout"  -> "loop"
      [] outcome = "rejected" -> "loop"
      [] outcome = "thrown"   -> "loop"

\* move, copy or delete up to the first await of runFileOperationParticipants
runFileOperationParticipants(c, operation, timeout) ==
    /\ wc[c].pc = "idle"
    /\ \A d \in Calls : d < c => wc[d].pc # "idle"
    /\ correlationIds + Cardinality({d \in Calls : wc[d].pc \in {"loop", "race", "willRun"}})
          < MaxCorrelationIds
    /\ wc' = [wc EXCEPT ![c] =
                [IdleWorkingCopy EXCEPT
                   !.pc = IF participantsRun(timeout) THEN "loop" ELSE "willRun",
                   !.operation = operation,
                   !.timeout = timeout]]
    /\ UNCHANGED <<participants, correlationIds, serviceVars, exceptWc>>

\* what the loop does once a participant is done with, one way or another
participantDone(rec, outcome) ==
    [rec EXCEPT !.pc = afterParticipant(outcome),
                !.index = rec.index + 1,
                !.error = IF afterParticipant(outcome) = "failed"
                          THEN "participant" ELSE rec.error]

\* one iteration of the loop: participate is called; it throws, or it returns
\* a promise that is raced against a new timer
participate(c, throws) ==
    /\ wc[c].pc = "loop"
    /\ wc[c].index <= Len(participants)
    /\ ~wc[c].cancelled
    /\ LET p == participants[wc[c].index]
           called == [wc[c] EXCEPT !.invoked = wc[c].invoked \cup {p}]
       IN  wc' = [wc EXCEPT ![c] =
                    IF throws
                    THEN [participantDone(called, "thrown")
                            EXCEPT !.rejected = wc[c].rejected \cup {p}]
                    ELSE [called EXCEPT
                            !.pc = "race",
                            !.timers = wc[c].timers \cup {[of |-> p, left |-> wc[c].timeout]}]]
    /\ UNCHANGED <<participants, correlationIds, serviceVars, exceptWc>>

\* the loop ends: no participant is left, or the token is cancelled
loopEnd(c) ==
    /\ wc[c].pc = "loop"
    /\ wc[c].index > Len(participants) \/ wc[c].cancelled
    /\ wc' = [wc EXCEPT ![c] =
                [wc[c] EXCEPT
                   !.pc = "willRun",
                   !.timers = {},
                   !.skipped = {participants[i] : i \in wc[c].index..Len(participants)}]]
    /\ UNCHANGED <<participants, correlationIds, serviceVars, exceptWc>>

\* the promise of the participant settles before any timer fires; the timer
\* that was started for it stays armed
participantSettles(c, ok) ==
    /\ wc[c].pc = "race"
    /\ LET p == participants[wc[c].index]
       IN  wc' = [wc EXCEPT ![c] =
                    IF ok
                    THEN participantDone(wc[c], "resolved")
                    ELSE [participantDone(wc[c], "rejected")
                            EXCEPT !.rejected = wc[c].rejected \cup {p}]]
    /\ UNCHANGED <<participants, correlationIds, serviceVars, exceptWc>>

\* time passes while the service waits and no timer is due
tick(c) ==
    /\ wc[c].pc = "race"
    /\ \A t \in wc[c].timers : t.left > 0
    /\ wc' = [wc EXCEPT ![c] =
                [wc[c] EXCEPT !.timers = {[t EXCEPT !.left = t.left - 1] : t \in wc[c].timers}]]
    /\ UNCHANGED <<participants, correlationIds, serviceVars, exceptWc>>

\* a timer fires: the token source is disposed, which cancels the token; the
\* other timers are cleared and reject, which their handlers swallow; the race
\* of the current participant is won by its timer
timerFires(c, t) ==
    /\ wc[c].pc = "race"
    /\ t \in wc[c].timers
    /\ t.left = 0
    /\ wc' = [wc EXCEPT ![c] =
                [participantDone(wc[c], "timeout") EXCEPT
                   !.cancelled = TRUE,
                   !.timers = {},
                   !.abandoned = wc[c].abandoned \cup {participants[wc[c].index]}]]
    /\ UNCHANGED <<participants, correlationIds, serviceVars, exceptWc>>

\* a counter that is read and not advanced
postIncrement_Stuck(n) == n

\* this.correlationIds++: the value of the counter after the expression
postIncrement(n) == n + 1

\* the event object of the call is made with the next correlation id, and
\* WaitUntilEvent.fireAsync(onWillRunWorkingCopyFileOperationEmitter) fires it
fireWillRun(c) ==
    /\ wc[c].pc = "willRun"
    /\ correlationIds' = postIncrement(correlationIds)
    /\ wc' = [wc EXCEPT ![c] =
                [wc[c] EXCEPT
                   !.pc = "operation",
                   !.events = Append(wc[c].events,
                                     [event |-> "willRun", correlationId |-> correlationIds])]]
    /\ UNCHANGED <<participants, serviceVars, exceptWc>>

\* the event fired after fileService.move, copy or del
operationEvent(ok) == IF ok THEN "didRun" ELSE "didFail"

\* fileService.move, copy or del, and the event that reports its outcome,
\* which is the event object onWillRun was fired with
runOperation(c, ok) ==
    /\ wc[c].pc = "operation"
    /\ wc' = [wc EXCEPT ![c] =
                [wc[c] EXCEPT
                   !.pc = IF ok THEN "done" ELSE "failed",
                   !.executed = TRUE,
                   !.error = IF ok THEN "none" ELSE "operation",
                   !.events = Append(wc[c].events,
                                     [event |-> operationEvent(ok),
                                      correlationId |-> wc[c].events[1].correlationId])]]
    /\ UNCHANGED <<participants, correlationIds, serviceVars, exceptWc>>

\* the promise of move, copy or delete has settled; the events of the call
\* stay on record
workingCopyReturn(c) ==
    /\ wc[c].pc \in {"done", "failed"}
    /\ wc' = [wc EXCEPT ![c] = [IdleWorkingCopy EXCEPT !.events = wc[c].events]]
    /\ UNCHANGED <<participants, correlationIds, serviceVars, exceptWc>>

\* the steps the service and the timers take by themselves
WorkingCopyStep ==
    \/ \E c \in Calls, throws \in BOOLEAN : participate(c, throws)
    \/ \E c \in Calls : loopEnd(c)
    \/ \E c \in Calls : tick(c)
    \/ \E c \in Calls : \E t \in wc[c].timers : timerFires(c, t)
    \/ \E c \in Calls : fireWillRun(c)
    \/ \E c \in Calls, ok \in BOOLEAN : runOperation(c, ok)

NextWorkingCopy ==
    \/ \E p \in Participants : addFileOperationParticipant(p)
    \/ \E p \in Participants : disposeParticipant(p)
    \/ \E c \in Calls : \E operation \in OperationsOf(c), timeout \in TimeoutsOf(c) :
          runFileOperationParticipants(c, operation, timeout)
    \/ \E c \in Calls, ok \in BOOLEAN : participantSettles(c, ok)
    \/ \E c \in Calls : workingCopyReturn(c)
    \/ WorkingCopyStep

InitWorkingCopy == Init /\ caps = FixedCaps

SpecWorkingCopy == InitWorkingCopy /\ [][NextWorkingCopy]_vars

\* the service goes on and the timers fire; a participant need never settle
SpecWorkingCopyFair == SpecWorkingCopy /\ WF_vars(WorkingCopyStep)

\* ------------------------------------------------------- provider lookup
\* The first lines of writeFile, createFolder, del, move and copy: the lookup
\* of the providers and the checks of their capabilities. What each operation
\* does afterwards is one provider call per provider it works on.

EntryCapabilities == {"Readonly", "FileReadWrite", "FileOpenReadWriteClose"}

EntryOperations == {"writeFile", "createFolder", "del", "move", "copy"}

\* the operations with a source and a target
TwoProviderOperations == {"move", "copy"}

IdleEntry ==
    [pc |-> "idle", op |-> "none", source |-> {}, target |-> {}, error |-> "none",
     calls |-> {}]

\* a check that lets a provider with Readonly pass
throwIfFileSystemIsReadonly_Never(capabilities) == "none"

\* throwIfFileSystemIsReadonly(provider, resource)
throwIfFileSystemIsReadonly(capabilities) ==
    IF "Readonly" \in capabilities THEN "FILE_PERMISSION_DENIED" ELSE "none"

\* withWriteProvider and withReadProvider: the provider has one of the two
\* shapes, or a plain Error is thrown
withReadWriteProvider(capabilities) ==
    IF "FileOpenReadWriteClose" \in capabilities \/ "FileReadWrite" \in capabilities
    THEN "none" ELSE "Error"

\* the first of the errors, "none" when there is none
firstError(errors) ==
    IF \A i \in 1..Len(errors) : errors[i] = "none" THEN "none"
    ELSE errors[CHOOSE i \in 1..Len(errors) :
                   errors[i] # "none" /\ \A j \in 1..(i - 1) : errors[j] = "none"]

\* what the lookup of the source provider throws: move asks for a provider
\* that writes and is not Readonly, copy for one that reads
sourceError(op, capabilities) ==
    IF op = "move"
    THEN firstError(<<withReadWriteProvider(capabilities),
                      throwIfFileSystemIsReadonly(capabilities)>>)
    ELSE withReadWriteProvider(capabilities)

\* what the lookup of the provider of the resource, or of the target, throws:
\* createFolder and del take any provider that is not Readonly
targetError(op, capabilities) ==
    IF op \in {"createFolder", "del"}
    THEN throwIfFileSystemIsReadonly(capabilities)
    ELSE firstError(<<withReadWriteProvider(capabilities),
                      throwIfFileSystemIsReadonly(capabilities)>>)

\* the operation is called; source and target are the capabilities of the
\* providers of its URIs
entryCall(op, source, target) ==
    /\ en.pc = "idle"
    /\ op \notin TwoProviderOperations => source = {}
    /\ en' = [IdleEntry EXCEPT !.pc = IF op \in TwoProviderOperations THEN "source" ELSE "target",
                               !.op = op, !.source = source, !.target = target]
    /\ UNCHANGED <<serviceVars, exceptEntry>>

\* move, copy: the provider of the source is looked up and checked
entrySource ==
    LET error == sourceError(en.op, en.source) IN
    /\ en.pc = "source"
    /\ en' = IF error # "none" THEN [en EXCEPT !.pc = "failed", !.error = error]
             ELSE [en EXCEPT !.pc = "target"]
    /\ UNCHANGED <<serviceVars, exceptEntry>>

\* the provider of the resource, or of the target, is looked up and checked
entryTarget ==
    LET error == targetError(en.op, en.target) IN
    /\ en.pc = "target"
    /\ en' = IF error # "none" THEN [en EXCEPT !.pc = "failed", !.error = error]
             ELSE [en EXCEPT !.pc = "running"]
    /\ UNCHANGED <<serviceVars, exceptEntry>>

\* the operation calls a method of one of its providers
entryProviderCall(which) ==
    /\ en.pc = "running"
    /\ which = "source" => en.op \in TwoProviderOperations
    /\ which \notin en.calls
    /\ en' = [en EXCEPT !.calls = @ \cup {which}]
    /\ UNCHANGED <<serviceVars, exceptEntry>>

\* the operation returns or throws what a provider threw
entryReturn(ok) ==
    /\ en.pc = "running"
    /\ en' = [en EXCEPT !.pc = IF ok THEN "done" ELSE "failed",
                        !.error = IF ok THEN "none" ELSE "provider"]
    /\ UNCHANGED <<serviceVars, exceptEntry>>

\* the caller has the outcome
entrySettled ==
    /\ en.pc \in {"done", "failed"}
    /\ en' = [en EXCEPT !.pc = "idle"]
    /\ UNCHANGED <<serviceVars, exceptEntry>>

NextEntry ==
    \/ \E op \in EntryOperations, source, target \in SUBSET EntryCapabilities :
          entryCall(op, source, target)
    \/ entrySource
    \/ entryTarget
    \/ \E which \in {"source", "target"} : entryProviderCall(which)
    \/ \E ok \in BOOLEAN : entryReturn(ok)
    \/ entrySettled

InitEntry == Init /\ caps = FixedCaps

SpecEntry == InitEntry /\ [][NextEntry]_vars

\* ----------------------------------------------------------- provider server

\* Map.set(req, watcher) of the watchers map
watchersSet(map, req, watcher) == [map EXCEPT ![req] = watcher]

\* FileSystemProviderServer.unwatch(req) on a server record: the watcher the
\* map holds for req leaves the map and is disposed; nothing without one
unwatch(server, req) ==
    LET watcher == server.watchers[req] IN
    IF watcher # 0
    THEN [server EXCEPT !.watchers[req] = 0,
                        !.watches[watcher].disposals = @ + 1]
    ELSE server

\* FileSystemProviderServer.watch(req, resource, opts): provider.watch hands
\* out a new watch, the map entry of req is set to it, and a disposable that
\* calls unwatch(req) is pushed to toDispose
serverWatch(req) ==
    /\ ~srv.disposed
    /\ Len(srv.watches) < MaxServerWatches
    /\ LET watcher == Len(srv.watches) + 1 IN
       srv' = [srv EXCEPT !.watches = Append(@, [req |-> req, disposals |-> 0]),
                          !.watchers = watchersSet(@, req, watcher),
                          !.toDispose = Append(@, req)]
    /\ UNCHANGED <<remoteVars, writeVars, watchVars, exceptServer>>

\* the client calls unwatch(req)
serverUnwatch(req) ==
    /\ ~srv.disposed
    /\ srv' = unwatch(srv, req)
    /\ srv' # srv
    /\ UNCHANGED <<remoteVars, writeVars, watchVars, exceptServer>>

\* the disposables of toDispose from the last to the first, each calling
\* unwatch with its request id
RECURSIVE disposeAll(_, _)
disposeAll(server, reqs) ==
    IF reqs = << >> THEN server
    ELSE disposeAll(unwatch(server, reqs[Len(reqs)]), SubSeq(reqs, 1, Len(reqs) - 1))

\* FileSystemProviderServer.dispose(): toDispose is disposed
serverDispose ==
    /\ ~srv.disposed
    /\ srv' = [disposeAll(srv, srv.toDispose) EXCEPT !.toDispose = << >>,
                                                     !.disposed = TRUE]
    /\ UNCHANGED <<remoteVars, writeVars, watchVars, exceptServer>>

NextServer ==
    \/ \E req \in ServerRequests : serverWatch(req)
    \/ \E req \in ServerRequests : serverUnwatch(req)
    \/ serverDispose

InitServer == Init /\ caps = FixedCaps

SpecServer == InitServer /\ [][NextServer]_vars

\* ------------------------------------------- write: concurrent createFile

\* createFile calls without overwrite that are made while earlier calls are
\* still in progress
NextCreate ==
    \/ \E t \in Tasks, r \in Resources, n \in WriteSizes : \E input \in InputsOf(n) :
          createFile(t, r, input, FALSE)
    \/ \E t \in Tasks : RunTask(t)
    \/ \E t \in Tasks : doWriteUnbufferedQueued(t)
    \/ \E t \in Tasks : doWriteStreamBufferedQueued(t)
    \/ \E t \in Tasks : providerWriteFile(t)
    \/ \E t \in Tasks : providerOpen(t)
    \/ \E t \in Tasks : doWriteBuffer(t)
    \/ \E t \in Tasks : providerClose(t)
    \/ \E t \in Tasks, ok \in BOOLEAN : writeFileReturn(t, ok)

SpecCreate == Init /\ [][NextCreate]_vars

\* ------------------------------------------ write: capabilities that change

\* the capabilities RemoteFileSystemProvider sets in its constructor, of
\* those the write model reads: PathCaseSensitive is not among them
RemoteDefaultCapabilities == {"FileReadWrite", "FileOpenReadWriteClose"}

\* RemoteFileSystemProvider.setCapabilities(capabilities), called when
\* server.getCapabilities() resolves and on notifyDidChangeCapabilities: the
\* capabilities of the provider are replaced.  The files of the model follow
\* the capabilities in force when a provider call is made
setCapabilities(p, capabilities) ==
    /\ caps[p] # capabilities
    /\ caps' = [caps EXCEPT ![p] = capabilities]
    /\ UNCHANGED <<files, handles, tasks, writeQueues, enqOrder, execOrder,
                   watchVars, remoteVars, opVars>>

\* writes through a provider whose capabilities are replaced while the
\* service is in use
NextCaps ==
    \/ \E t \in Tasks, r \in Resources, input \in Inputs : writeFile(t, r, input)
    \/ \E capabilities \in CapSetsA : setCapabilities("a", capabilities)
    \/ \E t \in Tasks : RunTask(t)
    \/ \E t \in Tasks : doWriteUnbufferedQueued(t)
    \/ \E t \in Tasks : doWriteStreamBufferedQueued(t)
    \/ \E t \in Tasks : providerWriteFile(t)
    \/ \E t \in Tasks : providerOpen(t)
    \/ \E t \in Tasks : doWriteBuffer(t)
    \/ \E t \in Tasks : providerClose(t)

InitCaps ==
    /\ Init
    /\ caps = [p \in Providers |-> IF p = "a" THEN RemoteDefaultCapabilities
                                   ELSE {"FileReadWrite", "PathCaseSensitive"}]

SpecCaps == InitCaps /\ [][NextCaps]_vars

\* ----------------------------------------------------------- method dispatch
\*
\* Which provider methods writeFile, readFile, readFileStream, copy and move
\* call, as a function of the capabilities of the providers and of the shape
\* of the input.  A call is a pair of the provider it goes to ("source" or
\* "target"; writeFile and the reads have a target only) and the method.

DispatchCapabilities == {"FileReadWrite", "FileOpenReadWriteClose", "FileFolderCopy"}

\* the methods every provider has
BaseMethods == {"stat", "mkdir", "readdir", "delete", "rename", "watch"}

\* the methods a provider with these capabilities has
declaredMethods(capabilities) ==
    BaseMethods
    \cup (IF "FileReadWrite" \in capabilities THEN {"readFile", "writeFile"} ELSE {})
    \cup (IF "FileOpenReadWriteClose" \in capabilities
          THEN {"open", "read", "write", "close"} ELSE {})
    \cup (IF "FileFolderCopy" \in capabilities THEN {"copy"} ELSE {})

on(side, methods) == {<<side, method>> : method \in methods}

\* a writeFile that looks at the shape of the input only
writesUnbuffered_BufferOnly(capabilities, shape) == shape = "buffer"

\* writeFile: unbuffered if the provider has no buffered write capability or
\* has the unbuffered one and the data is a TextBuffer
writesUnbuffered(capabilities, shape) ==
    \/ "FileOpenReadWriteClose" \notin capabilities
    \/ "FileReadWrite" \in capabilities /\ shape = "buffer"

\* writeFile after its provider lookup: validateWriteFile stats the resource,
\* a readable or stream is consumed up to three chunks when the provider has
\* FileReadWrite, then doWriteUnbuffered calls writeFile or doWriteBuffered
\* calls open, write and close
writeFileCalls(capabilities, input0) ==
    LET limited == "FileReadWrite" \in capabilities /\ input0.shape # "buffer"
        input == IF limited THEN consumeWithLimit(input0, 3) ELSE input0
    IN
    on("target", {"stat"}) \cup
    (IF writesUnbuffered(capabilities, input.shape) THEN on("target", {"writeFile"})
     ELSE on("target", {"open", "write", "close"}))

\* doReadAsFileStream: readFileUnbuffered calls readFile, readFileBuffered
\* reads through open, read and close
doReadAsFileStreamCalls(capabilities, preferUnbuffered) ==
    on("target", {"stat"}) \cup
    (IF "FileOpenReadWriteClose" \notin capabilities
           \/ ("FileReadWrite" \in capabilities /\ preferUnbuffered)
     THEN on("target", {"readFile"})
     ELSE on("target", {"open", "read", "close"}))

\* doCopyFile: the first of the four pairs of shapes that the two providers
\* have picks the pipe; none of them, nothing is called
doCopyFileCalls(sourceProvider, targetProvider) ==
    LET buffered(c) == "FileOpenReadWriteClose" \in c
        unbuffered(c) == "FileReadWrite" \in c
    IN
    IF buffered(sourceProvider) /\ buffered(targetProvider)
    THEN on("source", {"open", "read", "close"}) \cup on("target", {"open", "write", "close"})
    ELSE IF buffered(sourceProvider) /\ unbuffered(targetProvider)
    THEN on("source", {"open", "read", "close"}) \cup on("target", {"writeFile"})
    ELSE IF unbuffered(sourceProvider) /\ buffered(targetProvider)
    THEN on("source", {"readFile"}) \cup on("target", {"open", "write", "close"})
    ELSE IF unbuffered(sourceProvider) /\ unbuffered(targetProvider)
    THEN on("source", {"readFile"}) \cup on("target", {"writeFile"})
    ELSE {}

\* doMoveCopy for a source that is not the target: the validation stats both,
\* then a copy within one provider that has FileFolderCopy calls copy, any
\* other copy resolves the source and copies a file with doCopyFile and a
\* folder with mkdir and doCopyFile for the file in it; a move within one
\* provider calls rename, across providers it copies and deletes the source
doMoveCopyCalls(sourceProvider, targetProvider, same, mode, isDirectory) ==
    LET validated == on("source", {"stat"}) \cup on("target", {"stat"})
        copied == IF same /\ "FileFolderCopy" \in sourceProvider
                  THEN on("source", {"copy"})
                  ELSE on("source", {"stat"})
                       \cup (IF isDirectory
                             THEN on("source", {"readdir"}) \cup on("target", {"mkdir"})
                             ELSE {})
                       \cup doCopyFileCalls(sourceProvider, targetProvider)
    IN
    validated \cup
    (IF mode = "copy" THEN copied
     ELSE IF same THEN on("source", {"rename"})
     ELSE copied \cup on("source", {"stat", "delete"}))

IdleDispatch ==
    [op |-> "none", source |-> {}, target |-> {}, same |-> FALSE, shape |-> "none",
     calls |-> {}, error |-> "none"]

\* writeFile(resource, bufferOrReadableOrStream) on a provider with these
\* capabilities: withWriteProvider, then the write
writeFileDispatch(capabilities, input) ==
    /\ dp' = [IdleDispatch EXCEPT
                !.op = "writeFile", !.target = capabilities, !.shape = input.shape,
                !.error = withReadWriteProvider(capabilities),
                !.calls = IF withReadWriteProvider(capabilities) = "none"
                          THEN writeFileCalls(capabilities, input) ELSE {}]
    /\ UNCHANGED <<serviceVars, exceptDispatch>>

\* readFile(resource) (preferUnbuffered) and readFileStream(resource) on a
\* provider with these capabilities: withReadProvider, then the read
readDispatch(op, capabilities) ==
    /\ dp' = [IdleDispatch EXCEPT
                !.op = op, !.target = capabilities,
                !.error = withReadWriteProvider(capabilities),
                !.calls = IF withReadWriteProvider(capabilities) = "none"
                          THEN doReadAsFileStreamCalls(capabilities, op = "readFile")
                          ELSE {}]
    /\ UNCHANGED <<serviceVars, exceptDispatch>>

\* move(source, target) and copy(source, target) between providers with these
\* capabilities (one provider when same): the lookups of the two providers,
\* then doMoveCopy
moveCopyDispatch(mode, sourceProvider, targetProvider, same, isDirectory) ==
    LET error == firstError(<<withReadWriteProvider(sourceProvider),
                              withReadWriteProvider(targetProvider)>>)
    IN
    /\ same => sourceProvider = targetProvider
    /\ dp' = [IdleDispatch EXCEPT
                !.op = mode, !.source = sourceProvider, !.target = targetProvider,
                !.same = same, !.error = error,
                !.calls = IF error = "none"
                          THEN doMoveCopyCalls(sourceProvider, targetProvider, same, mode,
                                               isDirectory)
                          ELSE {}]
    /\ UNCHANGED <<serviceVars, exceptDispatch>>

NextDispatch ==
    \/ \E capabilities \in SUBSET DispatchCapabilities, input \in Inputs :
          writeFileDispatch(capabilities, input)
    \/ \E op \in {"readFile", "readFileStream"}, capabilities \in SUBSET DispatchCapabilities :
          readDispatch(op, capabilities)
    \/ \E mode \in {"move", "copy"}, sourceProvider \in SUBSET DispatchCapabilities,
          targetProvider \in SUBSET DispatchCapabilities, same \in BOOLEAN,
          isDirectory \in BOOLEAN :
          moveCopyDispatch(mode, sourceProvider, targetProvider, same, isDirectory)

InitDispatch == Init /\ caps = FixedCaps

SpecDispatch == InitDispatch /\ [][NextDispatch]_vars

\* ------------------------------------------------------ write: the claims

\* the task was handed to ensureWriteQueue
Enqueued(t) == tasks[t].key # ""

\* the bytes a write task is to store
dataOf(t) == concat(tasks[t].input.chunks)

\* u was enqueued before t, for the same key
EnqueuedBefore(u, t) ==
    /\ Enqueued(u) /\ Enqueued(t) /\ tasks[u].key = tasks[t].key
    /\ \E i, j \in 1..Len(enqOrder[tasks[t].key]) :
          i < j /\ enqOrder[tasks[t].key][i] = u /\ enqOrder[tasks[t].key][j] = t

\* C1: two tasks with the same queue key never run at the same time, and
\* while a task runs every task enqueued before it for that key has settled
C1_NoConcurrentWrites ==
    \A t, u \in Tasks :
        (t # u /\ Enqueued(u) /\ tasks[t].key = tasks[u].key /\ Running(t)) =>
            /\ ~Running(u)
            /\ EnqueuedBefore(u, t) => tasks[u].pc \in Settled

\* a write to "a:/X" runs after the write to "a:/x" it was queued behind
C1_Witness ==
    /\ tasks[1].resource = "a:/x" /\ tasks[2].resource = "a:/X"
    /\ tasks[1].key = tasks[2].key
    /\ tasks[1].ran /\ tasks[1].pc \in Settled /\ Running(2)

\* C2: for every queue key the tasks start in the order they were enqueued:
\* the start order is a prefix of the enqueue order
C2_FifoOrder ==
    \A k \in Resources : IsPrefix(execOrder[k], enqOrder[k])

\* two tasks of one key have both started, the first of them having failed
C2_Witness ==
    \E k \in Resources :
        /\ Len(execOrder[k]) = 2
        /\ tasks[execOrder[k][1]].pc = "rejected"

\* C3: a task whose promise rejected has run itself (it never takes over the
\* rejection of its predecessor), and every enqueued task eventually runs
C3_FailedWriteDoesNotStrand ==
    /\ [](\A t \in Tasks : (Enqueued(t) /\ tasks[t].pc = "rejected") => tasks[t].ran)
    /\ \A t \in Tasks : (tasks[t].pc = "queued") ~> tasks[t].ran

\* a task resolved after the task it was chained on had rejected
C3_Witness ==
    \E t \in Tasks :
        /\ tasks[t].pred # 0 /\ tasks[tasks[t].pred].pc = "rejected"
        /\ tasks[t].ran /\ tasks[t].pc = "resolved"

\* C4: once every task enqueued for a key has settled and the one enqueued
\* last is a writeFile that succeeded, the file holds that write's data
C4_LastWriteWins ==
    \A k \in Resources :
        LET last == enqOrder[k][Len(enqOrder[k])] IN
        ( /\ enqOrder[k] # << >>
          /\ \A i \in 1..Len(enqOrder[k]) : tasks[enqOrder[k][i]].pc \in Settled
          /\ tasks[last].op = "writeFile" /\ tasks[last].pc = "resolved" ) =>
            /\ files[k].exists
            /\ files[k].content = dataOf(last)

\* two writeFile calls to one URI went through random access; the second,
\* shorter than the first, is what the file holds
C4_Witness ==
    /\ tasks[1].op = "writeFile" /\ tasks[2].op = "writeFile"
    /\ tasks[1].resource = tasks[2].resource
    /\ tasks[1].kind = "writeBuffered" /\ tasks[2].kind = "writeBuffered"
    /\ tasks[1].pc = "resolved" /\ tasks[2].pc = "resolved"
    /\ Len(dataOf(2)) < Len(dataOf(1))
    /\ files[tasks[2].key].content = dataOf(2)

\* the tasks enqueued for key k are all writeFile calls
OnlyWriteFile(k) ==
    \A i \in 1..Len(enqOrder[k]) : tasks[enqOrder[k][i]].op = "writeFile"

\* C5 as claimed: at every moment a file that only writeFile calls write to
\* is absent, as it was before the calls, or holds the complete data of one
\* of the enqueued writes
C5_ReaderSeesCompleteData ==
    \A k \in Resources :
        (OnlyWriteFile(k) /\ files[k].exists) =>
            \/ enqOrder[k] = << >>
            \/ files[k].content = InitialContent
            \/ \E i \in 1..Len(enqOrder[k]) : files[k].content = dataOf(enqOrder[k][i])

\* C5 amended: such a file is absent, as it was before the calls, or holds a
\* prefix of the data of one of the enqueued writes; on a provider without
\* FileOpenReadWriteClose it holds the complete data of one of them
C5_ReaderSeesPrefix ==
    \A k \in Resources :
        (OnlyWriteFile(k) /\ files[k].exists) =>
            \/ enqOrder[k] = << >>
            \/ files[k].content = InitialContent
            \/ \E i \in 1..Len(enqOrder[k]) :
                  /\ IsPrefix(files[k].content, dataOf(enqOrder[k][i]))
                  /\ ~hasOpenReadWriteCloseCapability(scheme(k)) =>
                        files[k].content = dataOf(enqOrder[k][i])

\* a chunked write is half done: the file holds a proper, non-empty prefix
C5_Witness ==
    \E t \in Tasks :
        /\ tasks[t].op = "writeFile" /\ tasks[t].pc = "write"
        /\ OnlyWriteFile(tasks[t].key)
        /\ files[tasks[t].key].content # << >>
        /\ Len(files[tasks[t].key].content) < Len(dataOf(t))

\* ------------------------------------------------------ watch: the claims

\* the watch calls made with key k
SubsOf(k) == {s \in Subs : CalledFor(s, k)}

\* the watcher objects created for key k, one per provider.watch call
WatchersOf(k) == {w \in 1..Len(watchers) : watchers[w].key = k}

\* every watch call of key k has been answered and its disposer has been
\* invoked exactly once
AllDisposedOnce(k) ==
    /\ SubsOf(k) # {}
    /\ \A s \in SubsOf(k) : subs[s].pc = "wired" /\ subs[s].calls = 1

\* the runs of the unref function by the watch calls in S that hold watcher w
UnrefsOn(w, S) ==
    Cardinality({p \in S \X (1..(MaxRepeatedDisposals + 1)) :
                    subs[p[1]].watcher = w /\ p[2] <= subs[p[1]].unrefs})

\* the count watcher w has on behalf of the watch calls in S
RefsOn(w, S) == Cardinality({u \in S : subs[u].watcher = w}) - UnrefsOn(w, S)

\* C6 as claimed: after overlapping watch calls of one key, each followed by
\* one disposal, provider.watch was called once and its watch disposed once,
\* however the creations and the disposals interleave
C6_OpenedOnceClosedOnce ==
    \A k \in WatchKeys :
        (AllDisposedOnce(k) /\ k \notin lateCalls) =>
            /\ Cardinality(WatchersOf(k)) = 1
            /\ \A w \in WatchersOf(k) : watchers[w].disposes = 1

\* C6 amended: with one disposal per disposer, every provider watch of the
\* key is disposed at most once, at most one of them is open at a time and it
\* is the one in activeWatchers, all are disposed exactly once and the key is
\* gone after the last disposal, and provider.watch was called once when no
\* disposer was invoked before the creation of every overlapping watch
C6_EveryWatchClosedOnce ==
    \A k \in WatchKeys :
        (\A s \in SubsOf(k) : subs[s].calls <= 1) =>
            /\ \A w \in WatchersOf(k) :
                  /\ watchers[w].disposes <= 1
                  /\ watchers[w].disposes = 0 <=> activeWatchers[k] = w
            /\ AllDisposedOnce(k) =>
                  /\ activeWatchers[k] = 0
                  /\ \A w \in WatchersOf(k) : watchers[w].disposes = 1
            /\ (k \notin lateCalls /\ k \notin earlyDisposals) =>
                  Cardinality(WatchersOf(k)) <= 1

\* two watch calls that differ in letter case only shared one provider watch,
\* which the second of the two disposals has closed
C6_Witness ==
    /\ subs[1].resource = "a:/x" /\ subs[2].resource = "a:/X"
    /\ subs[1].key = subs[2].key
    /\ AllDisposedOnce(subs[1].key)
    /\ subs[1].key \notin lateCalls \cup earlyDisposals
    /\ Len(watchers) = 1 /\ watchers[1].disposes = 1
    /\ subs[1].unrefs = 1 /\ subs[2].unrefs = 1

\* C7 as claimed: of two subscribers of one provider watch the first invokes
\* its disposer twice and the second has not disposed; the count is still 1
\* and the provider watch is open
C7_DisposerIdempotent ==
    \A s, u \in Subs :
        ( /\ s # u
          /\ subs[s].pc = "wired" /\ subs[u].pc = "wired"
          /\ subs[s].watcher = subs[u].watcher
          /\ subs[s].calls = 2 /\ subs[u].calls = 0 ) =>
            /\ watchers[subs[u].watcher].count = 1
            /\ watchers[subs[u].watcher].disposes = 0
            /\ activeWatchers[subs[u].key] = subs[u].watcher

\* C8: a watch whose disposer was invoked before its creation completed has
\* been released exactly once when the callback of watch has run; the count
\* of its watcher is what the other watch calls account for, and when none
\* of them holds the watcher any more the provider watch is disposed and the
\* key is free of it
C8_EarlyDisposeReleases ==
    \A s \in Subs :
        (subs[s].pc = "wired" /\ subs[s].watchDisposed) =>
            LET w == subs[s].watcher IN
            /\ subs[s].unrefs = 1
            /\ watchers[w].count = RefsOn(w, Subs \ {s})
            /\ RefsOn(w, Subs \ {s}) <= 0 =>
                  /\ watchers[w].disposes = 1
                  /\ activeWatchers[subs[s].key] # w

\* a watch was disposed while doWatch was pending and released on creation;
\* another watch of the same key still holds the provider watch, count 1
C8_Witness ==
    \E s, u \in Subs :
        /\ s # u
        /\ subs[s].pc = "wired" /\ subs[s].watchDisposed /\ subs[s].unrefs = 1
        /\ subs[u].pc = "wired" /\ subs[u].calls = 0
        /\ subs[u].watcher = subs[s].watcher
        /\ watchers[subs[s].watcher].count = 1
        /\ watchers[subs[s].watcher].disposes = 0

\* ----------------------------------------------------- remote: the claims

\* the connection-opened events after the first one that watch a has seen
Reopens(a) ==
    IF connections > a.since
    THEN connections - (IF a.since = 0 THEN 1 ELSE a.since)
    ELSE 0

\* C9 as claimed: server.watch was called for every watch that is not
\* disposed once when it was created and once more, with the same id, URI
\* and options, on every connection-opened event but the first
C9_ReconnectReissuesWatches ==
    \A a \in remoteActive :
        serverWatchCalls[<<a.watcher, a.uri, a.options.recursive>>] = 1 + Reopens(a)

\* ------------------------------------------------- write: the claims, handles

\* C10: provider.close is called at most once for a handle, and exactly once
\* for every handle of a task that has settled
C10_HandlesClosedOnce ==
    \A t \in Tasks :
        /\ handles[t].source <= 1 /\ handles[t].target <= 1
        /\ tasks[t].pc \in Settled =>
              handles[t].source \in {-1, 1} /\ handles[t].target \in {-1, 1}

\* a pipe failed to open its target after it had opened its source, and has
\* closed the source handle
C10_Witness ==
    \E t \in Tasks :
        /\ tasks[t].kind = "pipeBuffered" /\ tasks[t].pc = "rejected"
        /\ handles[t].source = 1 /\ handles[t].target = -1

\* ------------------------------------------------- preconditions: the claims

\* the writeFile call has seen a stored file in validateWriteFile
WriteValidated ==
    vreq.op = "writeFile" /\ vreq.validated # "pending" /\ vreq.seen.type = "file"

\* the caller gave both mtime and etag, the etag is not ETAG_DISABLED, the
\* mtime on disk is newer than the caller's and the etag of the caller's
\* mtime with the size on disk is not the caller's etag
DirtyWrite ==
    /\ vreq.options.hasMtime /\ vreq.options.hasEtag
    /\ vreq.options.etag # ETAG_DISABLED
    /\ vreq.seen.mtime > vreq.options.mtime
    /\ etag(vreq.options.mtime, vreq.seen.size) # vreq.options.etag

\* C11: a writeFile on an existing file fails with FILE_MODIFIED_SINCE exactly
\* when the four conditions of the dirty-write check hold together; in every
\* other case the check lets the write go on to the provider
C11_DirtyWriteCheck ==
    WriteValidated =>
        /\ vreq.result = "FILE_MODIFIED_SINCE" <=> DirtyWrite
        /\ ~DirtyWrite => vreq.validated = "stat" /\ (vreq.pc = "write" \/ "write" \in vreq.calls)

\* a write was refused as dirty although the caller's etag carries the size
\* that is on disk: only the mtime in the etag is stale
C11_Witness ==
    /\ WriteValidated /\ vreq.result = "FILE_MODIFIED_SINCE"
    /\ \E m \in 0..MaxMtime : vreq.options.etag = etag(m, vreq.seen.size)

\* C12 as claimed: a writeFile whose etag is not the etag of the stored file
\* fails with FILE_MODIFIED_SINCE and has made no provider call but stat
C12_EtagMismatchFails ==
    (/\ WriteValidated /\ vreq.options.hasEtag /\ vreq.options.etag # ETAG_DISABLED
     /\ vreq.options.etag # etag(vreq.seen.mtime, vreq.seen.size))
    => vreq.result = "FILE_MODIFIED_SINCE" /\ vreq.calls = {"stat"}

\* C12 amended: a writeFile that gave mtime and etag fails with
\* FILE_MODIFIED_SINCE when the stored mtime is newer than the caller's and
\* the etag of the caller's mtime with the stored size is not the caller's
\* etag, and a call that failed so has made no provider call but stat
C12_DirtyWriteFailsUntouched ==
    /\ WriteValidated /\ DirtyWrite => vreq.result = "FILE_MODIFIED_SINCE"
    /\ vreq.op = "writeFile" /\ vreq.result = "FILE_MODIFIED_SINCE" =>
          vreq.pc = "done" /\ vreq.calls = {"stat"}

\* a write failed as dirty and the stored file is the one the check has seen
C12_Witness ==
    /\ vreq.op = "writeFile" /\ vreq.result = "FILE_MODIFIED_SINCE"
    /\ vreq.calls = {"stat"} /\ vfile = vreq.seen

\* the readFile call gave the etag that the stored file has
ReadOfUnmodified ==
    /\ vreq.op = "readFile" /\ vreq.validated # "pending" /\ vreq.seen.type = "file"
    /\ vreq.options.hasEtag /\ vreq.options.etag # ETAG_DISABLED
    /\ vreq.options.etag = etag(vreq.seen.mtime, vreq.seen.size)

\* C13: a read that gives the current etag of the file fails with
\* FILE_NOT_MODIFIED_SINCE and no read reaches the provider: while the
\* validation of a read with an etag is pending no read has started
C13_UnmodifiedReadTransfersNothing ==
    /\ ReadOfUnmodified =>
          vreq.result = "FILE_NOT_MODIFIED_SINCE" /\ "read" \notin vreq.calls
    /\ (/\ vreq.op = "readFile" /\ vreq.validated = "pending"
        /\ vreq.options.hasEtag /\ vreq.options.etag # ETAG_DISABLED)
       => "read" \notin vreq.calls

\* a read with the current etag has failed after the stat
C13_Witness ==
    ReadOfUnmodified /\ vreq.result = "FILE_NOT_MODIFIED_SINCE" /\ vreq.calls = {"stat"}

\* ------------------------------------------------------- mkdirp: the claims

\* C14 as claimed: when mkdirp(dir) returns without error, dir and every
\* ancestor of dir are directories, whatever ran concurrently
C14_MkdirpEnsuresDirectories ==
    \A c \in MkdirpCalls :
        mk[c].pc = "done" =>
            \A k \in 0..mk[c].target : typeAt(mk[c].returned, k) = "dir"

\* the first path the walk of the call found to exist is not a directory, or
\* provider.stat failed with an error other than FileNotFound
WalkRefused(c) == mk[c].found \in {"file", "Unknown"}

\* C15: a mkdirp whose walk meets an existing path that is not a directory, or
\* a stat error other than FileNotFound, fails and has called no provider.mkdir
C15_WalkFailsBeforeMkdir ==
    \A c \in MkdirpCalls :
        WalkRefused(c) => mk[c].pc = "failed" /\ mk[c].mkdirs = 0

\* a mkdirp of the deepest directory has failed on a file it met above it
C15_Witness ==
    \E c \in MkdirpCalls :
        /\ mk[c].pc = "failed" /\ mk[c].found = "file"
        /\ mk[c].target = MaxDepth /\ mk[c].directory < MaxDepth

\* ------------------------------------------------ provider registry: claims

C17_FailedRegistrationChangesNothing ==
    [][/\ Len(regs') > Len(regs) => provider = "none"
       /\ failedRegs' # failedRegs =>
             provider # "none" /\ UNCHANGED <<provider, regs, regEvents>>]_vars

\* a registration has failed: one provider is stored and subscribed to, and
\* the one registration event is its own
C17_Witness ==
    /\ failedRegs > 0 /\ Len(regs) = 1 /\ provider = regs[1].provider
    /\ regs[1].subscribed /\ regEvents = [added |-> 1, removed |-> 0]

\* ----------------------------------------------------------- copy: claims

\* the copy of task t is in progress
Copying(t) == tasks[t].op = "copy" /\ tasks[t].pc \notin Settled \cup {"idle"}

\* the copy of task t succeeded and no call was made after it
CopiedLast(t) ==
    /\ tasks[t].op = "copy" /\ tasks[t].pc = "resolved"
    /\ \A u \in Tasks : u > t => tasks[u].pc = "idle"

\* C19: no step of a copy changes the source file, and when the copy has
\* succeeded the target holds the bytes of the source, for every pairing of
\* capabilities, every size and every split of the reads and the writes
C19_CopyIsByteIdentical ==
    /\ [](\A t \in Tasks :
            CopiedLast(t) =>
               /\ files[fileOf(tasks[t].source)].exists
               /\ files[fileOf(tasks[t].resource)] = files[fileOf(tasks[t].source)])
    /\ [][\A t \in Tasks :
            Copying(t) =>
               files'[fileOf(tasks[t].source)] = files[fileOf(tasks[t].source)]]_vars

\* a file of more than two buffers was copied between two random-access
\* providers over a target that held other bytes
C19_Witness ==
    \E t \in Tasks :
        /\ CopiedLast(t) /\ tasks[t].kind = "pipeBuffered"
        /\ files[fileOf(tasks[t].resource)].content = contentOf(2 * BUFFER_SIZE + 1)
        /\ files[fileOf(tasks[t].source)].content = contentOf(2 * BUFFER_SIZE + 1)

\* ------------------------------------------------- move and copy: claims

\* C18 as claimed: after a successful move with overwrite between two
\* providers nothing is left at the source and the target holds the file or
\* the tree that the source held when move was called
C18_MoveTransfersContent ==
    (mv.pc = "done" /\ mv.op = "move" /\ ~mv.same /\ mv.overwrite) =>
        /\ store["s"] = NoTree
        /\ store["t"] = mv.atCall

\* the MOVE and COPY events fired on onDidRunOperation
MoveCopyEvents == SelectSeq(opEvents, LAMBDA e : e.operation \in {"MOVE", "COPY"})

\* C20: a move or copy that has not succeeded has fired no MOVE or COPY
\* event; one that has succeeded has fired exactly one, for the source, with
\* the stat resolved for the target: MOVE for a move within one provider,
\* COPY for a move across providers and for every copy
C20_EventNamesWhatWasDone ==
    /\ mv.pc # "done" => MoveCopyEvents = << >>
    /\ mv.pc = "done" =>
          /\ store[targetResource][""].type # "none"
          /\ MoveCopyEvents =
                << [operation |-> IF mv.op = "move" /\ mv.same THEN "MOVE" ELSE "COPY",
                    resource |-> "s", stat |-> store[targetResource][""].type] >>

\* a move across providers over an existing target has succeeded: DELETE for
\* the old target, DELETE for the source, then COPY
C20_Witness ==
    /\ mv.pc = "done" /\ mv.op = "move" /\ ~mv.same
    /\ Len(opEvents) = 3 /\ opEvents[3].operation = "COPY"

\* a move or copy has been called and doValidateMoveCopy has answered
Validated == mv.op \in {"move", "copy"} /\ mv.pc \notin {"idle", "doMoveCopy"}

\* when move or copy was called the target existed
TargetExisted ==
    IF mv.target = "p" THEN mv.before["s"][""].type # "none"
    ELSE mv.before[targetResource][""].type # "none"

\* the target of the call is the source in another letter case, on a
\* provider without PathCaseSensitive
CaseVariant == mv.target = "S" /\ ~mv.caseSensitive

\* the call has failed and nothing was asked of a provider that changes what
\* it stores
FailedUntouched == mv.pc = "failed" /\ mv.calls = {} /\ store = mv.before

C22_SelfMoveIsNoOp ==
    (mv.op \in {"move", "copy"} /\ mv.target = "s") =>
        /\ mv.calls = {}
        /\ store = mv.before
        /\ mv.error \in {"none", "provider"}

\* a move of a file onto itself with overwrite has returned
C22_Witness ==
    /\ mv.op = "move" /\ mv.target = "s" /\ mv.overwrite /\ mv.pc = "done"
    /\ store["s"][""] = [type |-> "file", content |-> 1]

\* C23: on a provider without PathCaseSensitive a move onto the source in
\* another letter case is never refused by the validation, never deletes,
\* and when it has succeeded it has called provider.rename and nothing
\* else; a copy in the same situation fails and changes nothing
C23_CaseRename ==
    /\ (mv.op = "move" /\ CaseVariant) =>
          /\ mv.error \in {"none", "provider"}
          /\ mv.calls \subseteq {"rename"}
          /\ mv.pc \in {"resolveTarget", "done"} => mv.calls = {"rename"}
    /\ (mv.op = "copy" /\ CaseVariant /\ Validated) =>
          FailedUntouched /\ mv.error = "Error"

\* a move without overwrite of a file that exists onto its other spelling
\* has succeeded
C23_Witness ==
    /\ mv.op = "move" /\ CaseVariant /\ ~mv.overwrite /\ mv.pc = "done"
    /\ TargetExisted /\ mv.calls = {"rename"}

\* when del was called it was to be refused: a folder with a child and no
\* recursive, a resource that is not there, or trash without the capability
DelRefused ==
    \/ ~mv.recursive /\ mv.atCall[""].type = "dir"
          /\ \E rel \in Rels : rel # "" /\ mv.atCall[rel].type # "none"
    \/ mv.atCall[""].type = "none"
    \/ mv.useTrash /\ ~mv.trash

\* C24 as stated: a del that is to be refused never calls provider.delete,
\* fires no DELETE and leaves what is stored; once validated it has failed,
\* with FILE_NOT_FOUND for a resource that is not there
C24_RefusedDeleteCallsNothing ==
    (mv.op = "del" /\ DelRefused) =>
        /\ mv.calls = {} /\ opEvents = << >> /\ store = mv.before
        /\ mv.pc \in {"idle", "del.validate", "del.resolve", "failed"}
        /\ (mv.pc = "failed" /\ mv.atCall[""].type = "none" /\ ~(mv.useTrash /\ ~mv.trash)) =>
              mv.error = "FILE_NOT_FOUND"

\* the bytes a writeFile or createFile call was given
written(w) == tasks[w].given

\* r is a readFile that has returned, called after the write w of the same
\* file had returned and with no write in between
ReadAfterWrite(w, r) ==
    /\ w < r
    /\ tasks[w].op \in {"writeFile", "createFile"} /\ tasks[w].pc = "returned"
    /\ tasks[r].op = "readFile" /\ tasks[r].pc = "returned"
    /\ fileOf(tasks[w].resource) = fileOf(tasks[r].resource)
    /\ \A u \in Tasks : (w < u /\ u < r) => tasks[u].op = "readFile"

\* C25: a readFile after a writeFile of the same file returns the bytes the
\* write was given, for every length, input shape and provider
C25_WriteThenReadRoundTrip ==
    \A w, r \in Tasks : ReadAfterWrite(w, r) => tasks[r].buffer = written(w)

\* a stream of more chunks than consumeWithLimit takes, shorter than what the
\* file held, was written through a handle and read back through it
C25_Witness ==
    \E w, r \in Tasks :
        /\ ReadAfterWrite(w, r)
        /\ tasks[w].kind = "writeBuffered" /\ tasks[w].input.shape = "stream"
        /\ Len(tasks[w].input.chunks) = 4
        /\ tasks[r].kind = "readBuffered"
        /\ tasks[r].buffer = bytesOf(BUFFER_SIZE) /\ Len(InitialContent) > BUFFER_SIZE

\* the createFile calls that have returned, in the order they were made
Created == SelectSeq([t \in Tasks |-> t],
                     LAMBDA t : tasks[t].op = "createFile" /\ tasks[t].pc = "returned")

C27_CreateFile ==
    /\ \A t \in Tasks : tasks[t].op = "createFile" =>
          IF ~tasks[t].overwrite /\ tasks[t].existed
          THEN /\ tasks[t].pc = "rejected" /\ tasks[t].error = "FILE_MODIFIED_SINCE"
               /\ ~tasks[t].ran /\ tasks[t].key = ""
          ELSE /\ tasks[t].error # "FILE_MODIFIED_SINCE"
               /\ tasks[t].pc \in {"resolved", "returned"} =>
                     \/ files[fileOf(tasks[t].resource)].content = written(t)
                     \/ \E u \in Tasks : u > t /\ tasks[u].ran /\ tasks[u].op # "readFile"
    /\ Len(opEvents) = Len(Created)

\* createFile without overwrite was refused for a file that exists and the
\* file holds what it held
C27_Witness ==
    \E t \in Tasks :
        /\ tasks[t].op = "createFile" /\ tasks[t].error = "FILE_MODIFIED_SINCE"
        /\ files[fileOf(tasks[t].resource)].content = InitialContent
        /\ written(t) # InitialContent /\ opEvents = << >>

\* the saveContents call has returned or thrown
SaveDone == fres.last = "save" /\ fres.pc = "idle"

\* the stat the write validation saw is later than the version the resource
\* had cached and of another size: the dirty-write check applies to them
ModifiedSinceCached ==
    /\ fres.before.has /\ fres.seen.type = "file"
    /\ fres.before.mtime < fres.seen.mtime /\ fres.before.size # fres.seen.size

\* C28 as stated: a save gives writeFile the etag and mtime of the cached
\* version; a save of a file modified since then fails with OutOfSync and
\* keeps the cached version, a save that succeeds records the new one
C28_SaveChecksCachedVersion ==
    /\ (fres.last = "save" /\ fres.before.has) =>
          fres.options = [hasMtime |-> TRUE, mtime |-> fres.before.mtime,
                          hasEtag |-> TRUE, etag |-> fres.before.etag]
    /\ (SaveDone /\ ModifiedSinceCached) =>
          fres.outcome = "OutOfSync" /\ fres.version = fres.before
    /\ (SaveDone /\ fres.outcome = "ok") => fres.version.has

\* the readContents call has returned or thrown
ReadDone == fres.last = "read" /\ fres.pc = "idle"

\* C29: readContents gives readFile the etag of the cached version; on
\* FILE_NOT_MODIFIED_SINCE it returns the cached content and keeps the
\* version, on FILE_NOT_FOUND it clears the version and throws NotFound, on
\* success it caches the stat just read, on any other error the version stays
C29_ReadContents ==
    /\ fres.last = "read" =>
          /\ fres.options.hasEtag = fres.before.has
          /\ fres.before.has => fres.options.etag = fres.before.etag
          /\ vreq.pc # "idle" => vreq.options = fres.options
    /\ ReadDone =>
          CASE fres.outcome = "cached" ->
                  /\ fres.before.has /\ fres.version = fres.before
                  /\ fres.returned = fres.before.value
                  /\ etag(fres.seen.mtime, fres.seen.size) = fres.before.etag
            [] fres.outcome = "NotFound" -> fres.version = NoVersion /\ fres.seen.type = "none"
            [] fres.outcome = "ok" ->
                  /\ fres.version = versionOf(fres.seen) /\ fres.returned = fres.version.value
                  /\ fres.before.has => fres.version.etag # fres.before.etag
            [] OTHER -> fres.version = fres.before

\* each outcome of readContents has happened to a resource with a cached
\* version: here the unmodified file, whose cached content was returned
C29_Witness ==
    /\ ReadDone /\ fres.outcome = "cached" /\ fres.before.has
    /\ fres.returned = <<1, 1>>


\* ------------------------------------------- WorkingCopyFileService: claims

\* C30: a participant can neither veto nor block a move, copy or delete of
\* WorkingCopyFileService: with a timeout of zero or less no participant is
\* invoked; a call fails only after the file operation was executed and failed;
\* a call that has returned has executed the file operation, and so has a call
\* one of whose participants rejected or was abandoned on a timeout; and every
\* call that was started gets to execute the file operation, whether or not
\* its participants ever settle.
C30_ParticipantsCannotVetoOrBlock ==
    \A c \in Calls :
        /\ [](wc[c].timeout <= 0 => wc[c].invoked = {})
        /\ [](wc[c].pc = "failed" => wc[c].executed /\ wc[c].error = "operation")
        /\ [](wc[c].pc \in {"done", "failed"} => wc[c].executed)
        /\ [](wc[c].abandoned \cup wc[c].rejected \subseteq wc[c].invoked)
        /\ (wc[c].pc # "idle" ~> wc[c].executed)

\* a call with a positive timeout whose first participant rejected and whose
\* second participant was abandoned on the timeout, and which executed the
\* file operation
C30_Witness ==
    \E c \in Calls :
        /\ wc[c].executed
        /\ wc[c].timeout > 0
        /\ wc[c].rejected # {}
        /\ wc[c].abandoned # {}
        /\ wc[c].rejected \cap wc[c].abandoned = {}

\* ------------------------------------------- move across providers: claims

\* a move whose source and target are on different providers
MoveAcrossProviders == mv.op = "move" /\ ~mv.same

\* del(source) of doMoveCopy has been issued, or the source is no longer what
\* it was at the call
SourceDeletionIssued == mv.pc = "delSource" \/ store["s"] # mv.atCall

\* the target holds everything the source held at the call
CopyComplete ==
    \A rel \in Rels : mv.atCall[rel].type # "none" => store["t"][rel] = mv.atCall[rel]

\* C31: in a move between different providers del(source) is issued, and the
\* source changed, only after every step of the copy has succeeded, the
\* readdir of each source folder included, so that the target holds all the
\* source held; a copy with a failed step leaves the source as it was.
C31_SourceDeletedAfterCopy ==
    MoveAcrossProviders /\ SourceDeletionIssued => ~mv.readdirFailed /\ CopyComplete

\* a move or copy with overwrite on one provider whose target is the source,
\* its other spelling on a provider without PathCaseSensitive, or an ancestor
\* of the source
OverwriteOntoAncestor ==
    /\ mv.op \in {"move", "copy"}
    /\ mv.same /\ mv.overwrite
    /\ isEqualOrParent(mv.target, "s", mv.caseSensitive)

\* C32: with overwrite on one provider a target that is equal to or an
\* ancestor of the source is never deleted: del(target) is not issued, the
\* source keeps what it held at the call, and a call whose target is a folder
\* that contains the source has failed once it is validated.
C32_AncestorTargetNotDeleted ==
    OverwriteOntoAncestor =>
        /\ mv.pc # "del"
        /\ "delete" \notin mv.calls
        /\ store["s"] = mv.atCall
        /\ mv.target = "p" /\ mv.pc # "doMoveCopy" =>
              mv.pc = "failed" /\ mv.error = "Error" /\ mv.calls = {}

\* a call with overwrite whose target is the existing parent folder of an
\* existing source, after it has failed
C32_Witness ==
    /\ OverwriteOntoAncestor
    /\ mv.target = "p"
    /\ mv.atCall[""].type # "none"
    /\ mv.pc = "failed"

\* ------------------------------------------------ provider lookup: claims

\* the call in flight modifies a provider with the Readonly capability:
\* writeFile, createFolder and del the provider of their resource, move its
\* source or its target, copy its target
ModifiesReadonly ==
    \/ en.op \in EntryOperations /\ "Readonly" \in en.target
    \/ en.op = "move" /\ "Readonly" \in en.source

\* every provider the call asks for a read or write shape has one
HasShapes ==
    /\ en.op \in TwoProviderOperations => withReadWriteProvider(en.source) = "none"
    /\ en.op \notin {"createFolder", "del"} => withReadWriteProvider(en.target) = "none"

\* the lookups of the call are over
EntryChecked == en.pc \notin {"idle", "source", "target"}

\* C33 as stated: an operation that modifies a Readonly provider fails with
\* FILE_PERMISSION_DENIED before any provider method is called.
C33_ReadonlyDenied ==
    ModifiesReadonly /\ EntryChecked =>
        en.pc = "failed" /\ en.error = "FILE_PERMISSION_DENIED" /\ en.calls = {}

\* C33, amended: an operation that modifies a Readonly provider fails before
\* any provider method is called; it fails with FILE_PERMISSION_DENIED when
\* every provider it asks for a read or write shape has one, which is always
\* so for createFolder and del, and else with FILE_PERMISSION_DENIED or with
\* the plain Error of the missing shape, whichever check comes first.
C33_ReadonlyFailsBeforeProvider ==
    ModifiesReadonly =>
        /\ en.pc \notin {"running", "done"}
        /\ en.calls = {}
        /\ EntryChecked =>
              /\ en.pc = "failed"
              /\ en.error \in {"FILE_PERMISSION_DENIED", "Error"}
              /\ HasShapes => en.error = "FILE_PERMISSION_DENIED"

\* a move onto a Readonly provider that has a write shape, from a provider
\* that is not Readonly, after it was denied
C33_Witness ==
    /\ en.op = "move"
    /\ "Readonly" \in en.target /\ "FileReadWrite" \in en.target
    /\ "Readonly" \notin en.source
    /\ en.pc = "failed" /\ en.error = "FILE_PERMISSION_DENIED"

\* ------------------------------------- WorkingCopyFileService: the events

\* the events call c has fired are those of the sequence kinds, all with the
\* correlation id of the first
FiredBy(c, kinds) ==
    /\ Len(wc[c].events) = Len(kinds)
    /\ \A i \in 1..Len(kinds) :
          /\ wc[c].events[i].event = kinds[i]
          /\ wc[c].events[i].correlationId = wc[c].events[1].correlationId

\* C34: a move, copy or delete of WorkingCopyFileService fires nothing while
\* its participants run; it has fired onWillRun, and nothing else, when the
\* FileService operation starts; once the operation is over it has fired
\* onDidRun if the operation succeeded and onDidFail if it failed, one of the
\* two and once, with the correlation id of its onWillRun, and a failed call
\* fails with the error of the operation; and no two calls fire events with
\* the same correlation id.
C34_OperationEvents ==
    /\ \A c \in Calls :
          /\ wc[c].pc \in {"loop", "race", "willRun"} => FiredBy(c, << >>)
          /\ wc[c].pc = "operation" => FiredBy(c, <<"willRun">>) /\ ~wc[c].executed
          /\ wc[c].pc = "done" => FiredBy(c, <<"willRun", "didRun">>) /\ wc[c].executed
          /\ wc[c].pc = "failed" =>
                /\ FiredBy(c, <<"willRun", "didFail">>)
                /\ wc[c].executed /\ wc[c].error = "operation"
    /\ \A c, d \in Calls :
          c # d /\ wc[c].events # << >> /\ wc[d].events # << >> =>
              wc[c].events[1].correlationId # wc[d].events[1].correlationId

\* two calls in flight together, one whose participants ran and whose
\* operation has failed, one whose operation is running
C34_Witness ==
    /\ wc[1].pc = "failed" /\ wc[1].invoked # {}
    /\ wc[2].pc = "operation"
    /\ FiredBy(1, <<"willRun", "didFail">>)
    /\ FiredBy(2, <<"willRun">>)

\* ------------------------------------------ move into the source: claims

\* a move or copy of a folder to a URI of the same provider that lies
\* strictly inside it
IntoDescendant ==
    /\ mv.op \in {"move", "copy"}
    /\ mv.same /\ mv.target = "c"
    /\ mv.atCall[""].type = "dir"

\* C35: a move or copy of a folder into one of its own descendants on the
\* same provider issues no mkdir, rename, copy, write or delete and changes
\* nothing, and has failed once it is validated, whether or not the target
\* exists and whatever the overwrite flag.
C35_IntoDescendantFails ==
    IntoDescendant =>
        /\ mv.calls = {}
        /\ store = mv.before
        /\ mv.pc # "doMoveCopy" => mv.pc = "failed"

\* ------------------------------------- provider registry: repeated disposal

\* C36: disposing a registration handle removes only the registration it was
\* returned for, also when it is disposed again: a provider whose own handle
\* was never disposed is the provider stored for the scheme, and one removal
\* event is fired per registration that was disposed.
C36_DisposeRemovesOwnRegistration ==
    /\ \A j \in DOMAIN regs : regs[j].disposals = 0 => provider = regs[j].provider
    /\ regEvents.removed = Cardinality({i \in DOMAIN regs : regs[i].disposals > 0})

\* ------------------------------------------------------------------ C37

\* the provider watches that are open: handed out and not disposed
OpenWatches == {w \in DOMAIN srv.watches : srv.watches[w].disposals = 0}

\* C37: every provider watch a watch(req) request opened stays reachable
\* until it is disposed: while it is open the watchers map holds it under its
\* request id, so that unwatch(req) or the disposal of the server disposes
\* it, and after the server is disposed no provider watch is open; this
\* includes a request id that is received a second time
C37_NoProviderWatchLost ==
    /\ \A w \in OpenWatches : srv.watchers[srv.watches[w].req] = w
    /\ srv.disposed => OpenWatches = {}

\* ------------------------------------------------------------------ C38

\* createFile calls t and u without overwrite for the same file, both made
\* while the file did not exist
CreateTwice(t, u) ==
    /\ t # u
    /\ tasks[t].op = "createFile" /\ tasks[u].op = "createFile"
    /\ ~tasks[t].overwrite /\ ~tasks[u].overwrite
    /\ fileOf(tasks[t].resource) = fileOf(tasks[u].resource)
    /\ ~tasks[t].existed /\ ~tasks[u].existed

\* the CREATE events fired for the file of resource r
CreateEvents(r) ==
    {i \in DOMAIN opEvents : opEvents[i].operation = "CREATE"
                             /\ fileOf(opEvents[i].resource) = fileOf(r)}

\* the write of call t has completed: the provider has written its bytes
Wrote(t) ==
    \/ tasks[t].pc \in {"resolved", "returned"}
    \/ tasks[t].pc = "rejected" /\ tasks[t].error = "resolve"

\* C38: of two createFile calls without overwrite made for the same URI
\* while it does not exist, at most one returns a stat, at most one has its
\* bytes written to the file, and at most one CREATE event is fired for the
\* file
C38_OneCreateWins ==
    \A t, u \in Tasks : CreateTwice(t, u) =>
        /\ ~(tasks[t].pc = "returned" /\ tasks[u].pc = "returned")
        /\ ~(Wrote(t) /\ Wrote(u))
        /\ Cardinality(CreateEvents(tasks[t].resource)) <= 1

\* ------------------------------------------------------------------ C39

\* writes t and u were enqueued for the same resource string
SameResource(t, u) ==
    /\ t # u /\ Enqueued(t) /\ Enqueued(u)
    /\ tasks[t].resource = tasks[u].resource

\* C39: two writes to the same resource string of one provider get the same
\* queue key and never run at the same time, also when the capabilities of
\* the provider were replaced between the two enqueues
C39_OneQueuePerResource ==
    \A t, u \in Tasks : SameResource(t, u) =>
        /\ tasks[t].key = tasks[u].key
        /\ ~(Running(t) /\ Running(u))

\* ------------------------------------------------------------------ C40

\* the methods the call made on the provider of one side
CalledOn(side) == {c[2] : c \in {d \in dp.calls : d[1] = side}}

\* the provider lacks both read/write shapes
NoShape(capabilities) ==
    "FileReadWrite" \notin capabilities /\ "FileOpenReadWriteClose" \notin capabilities

\* C40: every provider method writeFile, readFile, readFileStream, copy and
\* move call is one the capabilities of that provider declare, for every
\* combination of capabilities and every shape of the input; and a call on a
\* provider with neither FileReadWrite nor FileOpenReadWriteClose fails
\* having called no provider method
C40_OnlyDeclaredMethods ==
    /\ CalledOn("target") \subseteq declaredMethods(dp.target)
    /\ CalledOn("source") \subseteq declaredMethods(dp.source)
    /\ (dp.op # "none" /\ NoShape(dp.target)) => (dp.error = "Error" /\ dp.calls = {})
    /\ (dp.op \in {"move", "copy"} /\ NoShape(dp.source))
          => (dp.error = "Error" /\ dp.calls = {})

\* a TextBuffer written through a provider that has no writeFile, and a copy
\* from a provider without readFile to one without open
C40_Witness ==
    \/ /\ dp.op = "writeFile" /\ dp.shape = "buffer"
       /\ dp.target = {"FileOpenReadWriteClose"}
       /\ <<"target", "write">> \in dp.calls
    \/ /\ dp.op = "copy" /\ ~dp.same
       /\ dp.source = {"FileOpenReadWriteClose", "FileFolderCopy"}
       /\ dp.target = {"FileReadWrite"}
       /\ <<"target", "writeFile">> \in dp.calls

====
